---- MODULE Spec2Model ----
(***************************************************************************)
(* ThreadPoolManager (src/unnamed/part_009) and its worker script          *)
(* (src/src/utils/threading/worker.js) as a state machine.                 *)
(*                                                                         *)
(* The coordinator is single threaded: every action below is one run to    *)
(* completion of a handler or of the synchronous part of an async method.  *)
(* An async method that awaits (start, shutdown) leaves a frame in         *)
(* `frames`; its continuation is a separate action. A batch call that      *)
(* awaits its chunk tasks is kept in `batch`.                              *)
(***************************************************************************)
EXTENDS Integers, Sequences, FiniteSets, TLC

\* ---------------------------------------------------------------- bounds
\* Every exploration is bounded by a budget: the task ids scheduleTask may
\* allocate, the Worker objects that may be constructed, and the environment
\* faults that may be injected (a worker crash or unrequested exit, a
\* `new Worker` or postMessage that throws).
MaxTasks == 2          \* Spec: task ids
FewWorkers == 1        \* Spec: Worker objects
MaxFaults == 1         \* Spec: faults
RestartTasks == 1      \* RestartSpec: task ids
RestartWorkers == 2    \* RestartSpec: Worker objects
RestartFaults == 1     \* RestartSpec: faults
IdTasks == 2           \* IdSpec: task ids
IdWorkers == 2         \* IdSpec: Worker objects
IdFaults == 1          \* IdSpec: faults
SoloTasks == 1         \* SoloSpec: task ids
SoloWorkers == 1       \* SoloSpec: Worker objects
SoloFaults == 1        \* SoloSpec: faults
QueueTasks == 2        \* QueueSpec: task ids
QueueWorkers == 1      \* QueueSpec: Worker objects
QueueFaults == 1       \* QueueSpec: faults
WideTasks == 1         \* WideSpec: task ids
WideWorkers == 3       \* WideSpec: Worker objects
WideFaults == 1        \* WideSpec: faults
CrashTasks == 1        \* CrashSpec: task ids
CrashWorkers == 3      \* CrashSpec: Worker objects
CrashFaults == 1       \* CrashSpec: faults
BatchTasks == 2        \* BatchSpec: task ids
BatchWorkers == 2      \* BatchSpec: Worker objects
BatchFaults == 1       \* BatchSpec: faults
MaxPairs == 2          \* BatchSpec: start/end points passed to a batch call
MaxCalls == 3          \* FactorySpec: calls of the factory's methods after the import
BenchCalls == 2        \* BenchSpec: calls after the import, the benchmark among them
MaxRuns == 2           \* initializeModules() runs
MaxBenchmarks == 1     \* BenchSpec: calls of benchmarkAndSelectBest()
MaxChunked == 7        \* chunking: the length of the arrays
MaxChunkWorkers == 4   \* chunking: the length of the worker list
OverlapCalls == 2      \* OverlapSpec: benchmarkAndSelectBest() and setActiveType() calls
MaxCppCalls == 2       \* CppSpec: calls of a CppMathModule's operations

\* the configuration of the modelled pools and host
MaxQueueSize == 2      \* options.maxQueueSize
SmallQueueSize == 1    \* options.maxQueueSize of the pool of QueueSpec
HardwareThreads == 2   \* os.cpus().length

TaskBudget == [tasks |-> MaxTasks, workers |-> FewWorkers, faults |-> MaxFaults]
RestartBudget == [tasks |-> RestartTasks, workers |-> RestartWorkers, faults |-> RestartFaults]
IdBudget == [tasks |-> IdTasks, workers |-> IdWorkers, faults |-> IdFaults]
SoloBudget == [tasks |-> SoloTasks, workers |-> SoloWorkers, faults |-> SoloFaults]
QueueBudget == [tasks |-> QueueTasks, workers |-> QueueWorkers, faults |-> QueueFaults]
WideBudget == [tasks |-> WideTasks, workers |-> WideWorkers, faults |-> WideFaults]
BatchBudget == [tasks |-> BatchTasks, workers |-> BatchWorkers, faults |-> BatchFaults]
CrashBudget == [tasks |-> CrashTasks, workers |-> CrashWorkers, faults |-> CrashFaults]
Budgets == {TaskBudget, RestartBudget, IdBudget, SoloBudget, QueueBudget, WideBudget,
            BatchBudget, CrashBudget}

MaxOf(S) == CHOOSE x \in S : \A y \in S : y <= x

TaskIds == 0 .. (MaxOf({b.tasks : b \in Budgets}) - 1)
Wids == 1 .. MaxOf({b.workers : b \in Budgets})
NoWorker == 0

\* options.jsThreads: absent (0), invalid, or one thread
RequestedThreads == {-1, 0, 1}
\* options.jsThreads of the pool of WideSpec: as many threads as the host has
WideThreads == {HardwareThreads}

\* ------------------------------------------------------- task payloads
\* A task is a serialisable function; the tests use functions returning a
\* constant and functions throwing an Error.
\* The k-th call passes a function built from k (as the tests do with () => i), so
\* that different tasks have different results.
Fns == {"return", "throw"}
NoPayload == [fn |-> "none", arg |-> -1]
Undefined == -1

\* ----------------------------------------------------- batch operations
\* this.cppModule: the require() failed (fallbackMode), the module is loaded
\* without batch primitives, or it is loaded and has them
CppModules == {"absent", "plain", "batch"}

\* options.seed of a batch call: absent, or a number (0 is a seed)
SeedOptions == {Undefined, 0}
\* Math.floor(Math.random() * 1000000)
RandomSeeds == {3}

\* an array of start (or end) points of length n; a point is named by its
\* position in the caller's array, and so is the path computed for it
points(n) == [i \in 1 .. n |-> i]

\* error messages of the pool
ErrNotRunning == "Thread pool is not running"
ErrQueueFull == "Task queue is full"
ErrNoWorkers == "No workers available"
ErrPost == "postMessage failed"
ErrTimeout == "Task timed out"
ErrShutdown == "Thread pool is shutting down"
ErrLength == "Start and end points arrays must have the same length"
\* the error a native batch primitive throws
ErrNative == "native batch call failed"
\* a rejection carrying the error a worker reported
TaskError == "task error"

VARIABLES
    running,        \* this.running
    workers,        \* this.workers : sequence of live Worker objects
    jsThreadCount,  \* this.jsThreadCount
    maxQueueSize,   \* this.maxQueueSize
    taskQueue,      \* this.taskQueue : ids that have an entry
    timers,         \* armed task timeouts (the entries' timeoutId)
    nextTaskId,     \* this.nextTaskId
    promise,        \* the promise returned by scheduleTask for each id
    payload,        \* the function and argument of the task message posted under each id
    posted,         \* the Worker each task message was posted to
    msgs,           \* result messages sent by workers to the coordinator
    wstate,         \* each Worker object: unborn, alive, errored ('error' emitted),
                    \* terminating (terminate() called), exited ('exit' emitted)
    wslot,          \* workerData.id of each Worker object
    respawn,        \* pending setTimeout(createWorker(id), 1000) per slot id
    frames,         \* suspended start()/shutdown() calls
    budget,         \* the exploration's bounds (never changes)
    faults,         \* environment faults injected so far
    cppModule,      \* this.cppModule / this.fallbackMode
    batch,          \* the batch call made on the pool and its promise
    nativeCalls,    \* calls of the native batch primitives, in order
    \* MathModuleFactory (src/src/core/MathModuleBridge.ts)
    instances,      \* MathModuleFactory.instances : kind -> module object
    activeType,     \* MathModuleFactory.activeType
    isInitialized,  \* MathModuleFactory.isInitialized
    isInitializing, \* MathModuleFactory.isInitializing
    initializationPromise, \* the initializeModules() run it is the promise of
    runs,           \* the initializeModules() runs started so far
    calls,          \* the calls of the factory's static methods made so far
    cppMath,        \* a CppMathModule object: moduleReady, initAttempts, initPromise
    cppCalls,       \* the calls of that object's operations made so far
    \* PointPool (src/unnamed/part_007)
    pool,           \* this.pool : the pooled Point objects, in order
    currentIndex,   \* this.currentIndex
    maxSize,        \* this.maxSize
    autoExpand,     \* this.autoExpand
    allocations,    \* this.allocations
    releases,       \* this.releases
    created,        \* the Point objects created so far (object k is the k-th)
    holders,        \* for each Point object, the callers holding it: got from
                    \* allocate() and not released since
    point           \* what the last allocate() returned

vars == <<running, workers, jsThreadCount, maxQueueSize, taskQueue, timers, nextTaskId,
          promise, payload, posted, msgs, wstate, wslot, respawn, frames,
          budget, faults, cppModule, batch, nativeCalls,
          instances, activeType, isInitialized, isInitializing, initializationPromise,
          runs, calls, cppMath, cppCalls,
          pool, currentIndex, maxSize, autoExpand, allocations, releases, created,
          holders, point>>

\* the state of MathModuleFactory
factoryVars == <<instances, activeType, isInitialized, isInitializing,
                 initializationPromise, runs, calls>>

\* the state of a CppMathModule
cppVars == <<cppMath, cppCalls>>

\* the state of a PointPool and of its callers
pointVars == <<pool, currentIndex, maxSize, autoExpand, allocations, releases, created,
               holders, point>>

\* the state of the math modules and of the point pool
mathVars == <<factoryVars, cppVars, pointVars>>

\* the state of ThreadPoolManager and its workers
poolVars == <<running, workers, jsThreadCount, maxQueueSize, taskQueue, timers, nextTaskId,
              promise, payload, posted, msgs, wstate, wslot, respawn, frames,
              budget, faults, cppModule, batch, nativeCalls>>

\* ---------------------------------------------------------------- helpers
Range(s) == {s[i] : i \in 1 .. Len(s)}

Max(a, b) == IF a >= b THEN a ELSE b
Min(a, b) == IF a <= b THEN a ELSE b

RECURSIVE sortedSeq(_)
sortedSeq(S) ==
    IF S = {} THEN <<>>
    ELSE LET m == CHOOSE x \in S : \A y \in S : x <= y
         IN  <<m>> \o sortedSeq(S \ {m})

RemoveAt(s, i) == SubSeq(s, 1, i - 1) \o SubSeq(s, i + 1, Len(s))

\* number of Worker objects constructed so far, plus one
nextWid == 1 + Cardinality({w \in Wids : wstate[w] # "unborn"})

\* Worker objects the suspended start() calls will construct when they resume
\* (the budget keeps them available)
reserved == jsThreadCount * Cardinality({i \in 1 .. Len(frames) : frames[i].op = "start"})

\* determineThreadCount(requestedThreads)
determineThreadCount(requestedThreads) ==
    IF requestedThreads <= 0
    THEN Max(1, HardwareThreads \div 2)
    ELSE Min(requestedThreads, HardwareThreads)

\* options.maxQueueSize || 10000
queueSizeOption(option) == IF option = 0 THEN 10000 ELSE option

Slots == 0 .. (HardwareThreads - 1)

\* --------------------------------------------------------------- promises
PendingPromise == [state |-> "pending", kind |-> "none", value |-> -1, calls |-> 0]

\* resolve(v) / reject(e) of a promise: the first call settles it, later
\* calls leave it as it is; calls counts the calls made. kind is "value" for
\* a resolution and the error's message for a rejection; value is the result
\* (or the error a worker reported).
settle(p, st, kind, v) ==
    IF p.state = "pending"
    THEN [state |-> st, kind |-> kind, value |-> v, calls |-> p.calls + 1]
    ELSE [p EXCEPT !.calls = @ + 1]

resolveWith(p, v) == settle(p, "resolved", "value", v)
rejectWith(p, kind, v) == settle(p, "rejected", kind, v)

\* ----------------------------------------------------------------- worker
\* worker.js parentPort.on('message'): run the function, post the result or
\* the serialised error under the task's id.
\* a worker that posts the thrown error as the task's result
workerReply_errorAsResult(w, t, task) ==
    [id |-> t, type |-> "result", result |-> task.arg, error |-> Undefined, from |-> w]

workerReply(w, t, task) ==
    IF task.fn = "return"
    THEN [id |-> t, type |-> "result", result |-> task.arg, error |-> Undefined, from |-> w]
    ELSE [id |-> t, type |-> "result", result |-> Undefined, error |-> task.arg, from |-> w]

\* the 'error' report a worker posts from its uncaughtException and
\* unhandledRejection handlers
errorMessage(w) ==
    [id |-> -1, type |-> "error", result |-> Undefined, error |-> 0, from |-> w]

\* the 'status' report every worker posts when it starts
statusMessage(w) ==
    [id |-> -1, type |-> "status", result |-> Undefined, error |-> Undefined, from |-> w]

workerRun(w, t) ==
    /\ wstate[w] = "alive"
    /\ posted[t] = w
    /\ \A m \in msgs : ~(m.id = t /\ m.from = w)
    /\ msgs' = msgs \cup {workerReply(w, t, payload[t])}
    /\ UNCHANGED <<running, workers, jsThreadCount, maxQueueSize, taskQueue, timers, nextTaskId,
                   promise, payload, posted, wstate, wslot, respawn, frames, budget, mathVars,
                   cppModule, batch, nativeCalls, faults>>

\* ------------------------------------------------------ createWorker
\* createWorker(id) for each slot of sl, in order: new Worker objects are
\* pushed on this.workers.
createdWorkers(sl) == [i \in 1 .. Len(sl) |-> nextWid + i - 1]

\* createWorker without `this.workers.push(worker)`
createWorkers_noPush(ws, sl) ==
    /\ workers' = ws
    /\ wstate' = [w \in Wids |->
                    IF w \in Range(createdWorkers(sl)) THEN "alive" ELSE wstate[w]]
    /\ wslot' = [w \in Wids |->
                    IF w \in Range(createdWorkers(sl)) THEN sl[w - nextWid + 1] ELSE wslot[w]]

createWorkers(ws, sl) ==
    /\ workers' = ws \o createdWorkers(sl)
    /\ wstate' = [w \in Wids |->
                    IF w \in Range(createdWorkers(sl)) THEN "alive" ELSE wstate[w]]
    /\ wslot' = [w \in Wids |->
                    IF w \in Range(createdWorkers(sl)) THEN sl[w - nextWid + 1] ELSE wslot[w]]

\* ------------------------------------------------------ awaits
\* `await Promise.all(terminationPromises)` resumes once every awaited worker
\* has emitted 'exit'.
resumable(frame) == \A w \in frame.waits : wstate[w] = "exited"

\* ------------------------------------------------------ Promise.all
\* The batch call: the operation, the length of startPoints, the path taken
\* (native, workers, linear), the promises of the chunk tasks, and the
\* state of the promise the call returned. NoBatch: no call has been made.
NoBatch ==
    [op |-> "none", n |-> 0, path |-> "none",
     chunks |-> <<>>, state |-> "idle", kind |-> "none", value |-> Undefined,
     result |-> <<>>]

\* The promise scheduleTask returned for a chunk: the one registered under
\* the chunk's task id, or one rejected before an id was allocated.
chunkPromise(c) ==
    IF c.id = Undefined
    THEN [state |-> "rejected", kind |-> c.kind, value |-> Undefined, calls |-> 1]
    ELSE promise[c.id]

rejectedChunks(b) == {k \in 1 .. Len(b.chunks) : chunkPromise(b.chunks[k]).state = "rejected"}

\* rejections made by scheduleTask itself, while the chunks are submitted
SyncErrors == {ErrNotRunning, ErrQueueFull, ErrNoWorkers, ErrPost}

\* Promise.all rejects with the rejection that happened first. Rejections by
\* scheduleTask itself happen, in chunk order, before the batch call returns;
\* any other rejection is made by one handler, after which the continuation
\* runs before the next handler does (shutdown rejects in id order).
firstRejected(b) ==
    LET sync == {k \in rejectedChunks(b) : chunkPromise(b.chunks[k]).kind \in SyncErrors}
        from == IF sync # {} THEN sync ELSE rejectedChunks(b)
    IN  CHOOSE k \in from : \A j \in from : k <= j

\* `await Promise.all(...)` of a batch call can resume
batchReady ==
    /\ batch.state = "pending"
    /\ \/ rejectedChunks(batch) # {}
       \/ \A k \in 1 .. Len(batch.chunks) : chunkPromise(batch.chunks[k]).state = "resolved"

\* A resumable continuation is a microtask: the event loop runs it before it
\* dispatches the next timer, message or worker event. Synchronous calls of
\* the caller (start, shutdown, scheduleTask) may still come first.
eventLoopIdle == (\A i \in 1 .. Len(frames) : ~resumable(frames[i])) /\ ~batchReady

\* ------------------------------------------------------ terminateWorkers
\* synchronous part: worker.terminate() on every worker, this.workers = []
terminated(ws) ==
    [w \in Wids |-> IF w \in Range(ws) THEN "terminating" ELSE wstate[w]]

\* ------------------------------------------------------------ start
\* start that also resets the id counter
start_resetsIds ==
    IF running
    THEN UNCHANGED vars
    ELSE /\ (nextWid - 1) + reserved + jsThreadCount <= budget.workers
         /\ running' = TRUE
         /\ nextTaskId' = 0
         /\ wstate' = terminated(workers)
         /\ workers' = <<>>
         /\ frames' = Append(frames, [op |-> "start", waits |-> Range(workers)])
         /\ UNCHANGED <<jsThreadCount, maxQueueSize, taskQueue, timers, promise, payload,
                        posted, msgs, wslot, respawn, budget, mathVars,
                        cppModule, batch, nativeCalls, faults>>

start ==
    IF running
    THEN UNCHANGED vars
    ELSE /\ (nextWid - 1) + reserved + jsThreadCount <= budget.workers
         /\ running' = TRUE
         /\ wstate' = terminated(workers)
         /\ workers' = <<>>
         /\ frames' = Append(frames, [op |-> "start", waits |-> Range(workers)])
         /\ UNCHANGED <<jsThreadCount, maxQueueSize, taskQueue, timers, nextTaskId, promise, payload,
                        posted, msgs, wslot, respawn, budget, mathVars,
                        cppModule, batch, nativeCalls, faults>>

\* initializeWorkers whose loop stops at the first createWorker that fails
startContinueWith_abortsOnFailure(i, ok) ==
    /\ i \in 1 .. Len(frames)
    /\ frames[i].op = "start"
    /\ resumable(frames[i])
    /\ ok \subseteq 0 .. (jsThreadCount - 1)
    /\ nextWid + Cardinality(ok) - 1 <= budget.workers
    /\ createWorkers(workers, sortedSeq({s \in ok : \A r \in 0 .. s : r \in ok}))
    /\ faults' = faults + (jsThreadCount - Cardinality(ok))
    /\ faults' <= budget.faults
    /\ frames' = RemoveAt(frames, i)
    /\ UNCHANGED <<running, jsThreadCount, maxQueueSize, taskQueue, timers, nextTaskId, promise,
                   payload, posted, msgs, respawn, budget, mathVars, cppModule, batch, nativeCalls>>

\* initializeWorkers after `await this.terminateWorkers()`: one createWorker
\* per slot; `ok` are the slots whose `new Worker` did not throw.
startContinueWith(i, ok) ==
    /\ i \in 1 .. Len(frames)
    /\ frames[i].op = "start"
    /\ resumable(frames[i])
    /\ ok \subseteq 0 .. (jsThreadCount - 1)
    /\ nextWid + Cardinality(ok) - 1 <= budget.workers
    /\ createWorkers(workers, sortedSeq(ok))
    /\ faults' = faults + (jsThreadCount - Cardinality(ok))
    /\ faults' <= budget.faults
    /\ frames' = RemoveAt(frames, i)
    /\ UNCHANGED <<running, jsThreadCount, maxQueueSize, taskQueue, timers, nextTaskId, promise,
                   payload, posted, msgs, respawn, budget, mathVars, cppModule, batch, nativeCalls>>

startContinue ==
    \E i \in 1 .. Len(frames) : \E ok \in SUBSET Slots : startContinueWith(i, ok)

\* ------------------------------------------------------------ shutdown
\* shutdown that clears the map without rejecting its entries
shutdownRejects_none(q) == promise

shutdownRejects(q) ==
    [t \in TaskIds |-> IF t \in q THEN rejectWith(promise[t], ErrShutdown, Undefined)
                       ELSE promise[t]]

\* shutdown without the check of this.running
shutdown_unguarded ==
    /\ running' = FALSE
    /\ promise' = shutdownRejects(taskQueue)
    /\ timers' = timers \ taskQueue
    /\ taskQueue' = {}
    /\ wstate' = terminated(workers)
    /\ workers' = <<>>
    /\ frames' = Append(frames, [op |-> "shutdown", waits |-> Range(workers)])
    /\ UNCHANGED <<jsThreadCount, maxQueueSize, nextTaskId, payload, posted, msgs, wslot,
                   respawn, budget, mathVars, cppModule, batch, nativeCalls, faults>>

shutdown ==
    IF ~running
    THEN UNCHANGED vars
    ELSE /\ running' = FALSE
         /\ promise' = shutdownRejects(taskQueue)
         /\ timers' = timers \ taskQueue
         /\ taskQueue' = {}
         /\ wstate' = terminated(workers)
         /\ workers' = <<>>
         /\ frames' = Append(frames, [op |-> "shutdown", waits |-> Range(workers)])
         /\ UNCHANGED <<jsThreadCount, maxQueueSize, nextTaskId, payload, posted, msgs, wslot,
                        respawn, budget, mathVars, cppModule, batch, nativeCalls, faults>>

\* after `await this.terminateWorkers()`: emit('shutdown')
shutdownContinue ==
    \E i \in 1 .. Len(frames) :
        /\ frames[i].op = "shutdown"
        /\ resumable(frames[i])
        /\ frames' = RemoveAt(frames, i)
        /\ UNCHANGED <<running, workers, jsThreadCount, maxQueueSize, taskQueue, timers, nextTaskId,
                       promise, payload, posted, msgs, wstate, wslot, respawn, budget, mathVars,
                       cppModule, batch, nativeCalls, faults>>

\* ------------------------------------------------------------ scheduleTask
\* What a scheduleTask call made in the current state does with its promise
\* before it returns: the error it rejects with, or Accepted when the task
\* was registered and posted. postThrows: worker.postMessage throws.
Accepted == "accepted"

\* scheduleTask without the check of this.running
scheduleResult_ignoresRunning(postThrows) ==
    IF Cardinality(taskQueue) >= maxQueueSize THEN ErrQueueFull
    ELSE IF Len(workers) = 0 THEN ErrNoWorkers
    ELSE IF postThrows THEN ErrPost
    ELSE Accepted

\* scheduleTask that compares the queue size with > instead of >=
scheduleResult_offByOne(postThrows) ==
    IF ~running THEN ErrNotRunning
    ELSE IF Cardinality(taskQueue) > maxQueueSize THEN ErrQueueFull
    ELSE IF Len(workers) = 0 THEN ErrNoWorkers
    ELSE IF postThrows THEN ErrPost
    ELSE Accepted

scheduleResult(postThrows) ==
    IF ~running THEN ErrNotRunning
    ELSE IF Cardinality(taskQueue) >= maxQueueSize THEN ErrQueueFull
    ELSE IF Len(workers) = 0 THEN ErrNoWorkers
    ELSE IF postThrows THEN ErrPost
    ELSE Accepted

\* a selection that always takes the first worker
selectWorker_first(taskId) == workers[1]

\* simple round-robin worker selection
selectWorker(taskId) == workers[(taskId % Len(workers)) + 1]

\* scheduleTask without the setTimeout
armTimeout_never(ts, taskId) == ts

\* `const timeoutId = setTimeout(...)`: the timer of taskId is armed
armTimeout(ts, taskId) == ts \cup {taskId}

\* a clearTimeout that leaves the timer armed
clearTimeout_noop(ts, timeoutId) == ts

\* `clearTimeout(timeoutId)`
clearTimeout(ts, timeoutId) == ts \ {timeoutId}

\* scheduleTask whose failure branches reject without clearing the timer and
\* deleting the entry
scheduleTask_keepsFailed(task, postThrows) ==
    IF scheduleResult(postThrows) \in {ErrNotRunning, ErrQueueFull}
    THEN UNCHANGED vars
    ELSE LET taskId == nextTaskId IN
         /\ nextTaskId < budget.tasks
         /\ nextTaskId' = nextTaskId + 1
         /\ timers' = armTimeout(timers, taskId)
         /\ taskQueue' = taskQueue \cup {taskId}
         /\ IF scheduleResult(postThrows) = Accepted
            THEN /\ posted' = [posted EXCEPT ![taskId] = selectWorker(taskId)]
                 /\ payload' = [payload EXCEPT ![taskId] = task]
                 /\ UNCHANGED promise
            ELSE /\ promise' = [promise EXCEPT ![taskId] =
                                  rejectWith(@, scheduleResult(postThrows), Undefined)]
                 /\ UNCHANGED <<posted, payload>>
         /\ faults' = IF scheduleResult(postThrows) = ErrPost THEN faults + 1 ELSE faults
         /\ faults' <= budget.faults
         /\ UNCHANGED <<running, workers, jsThreadCount, maxQueueSize, msgs, wstate, wslot, respawn,
                        frames, budget, mathVars, cppModule, batch, nativeCalls>>

scheduleTask(task, postThrows) ==
    IF scheduleResult(postThrows) \in {ErrNotRunning, ErrQueueFull}
    THEN UNCHANGED vars
    ELSE LET taskId == nextTaskId IN
         /\ nextTaskId < budget.tasks
         /\ nextTaskId' = nextTaskId + 1
         /\ IF scheduleResult(postThrows) = Accepted
            THEN /\ timers' = armTimeout(timers, taskId)
                 /\ taskQueue' = taskQueue \cup {taskId}
                 /\ posted' = [posted EXCEPT ![taskId] = selectWorker(taskId)]
                 /\ payload' = [payload EXCEPT ![taskId] = task]
                 /\ UNCHANGED promise
            ELSE \* the entry is set, then the timer cleared and the entry deleted
                 /\ timers' = clearTimeout(armTimeout(timers, taskId), taskId)
                 /\ taskQueue' = (taskQueue \cup {taskId}) \ {taskId}
                 /\ promise' = [promise EXCEPT ![taskId] =
                                  rejectWith(@, scheduleResult(postThrows), Undefined)]
                 /\ UNCHANGED <<posted, payload>>
         /\ faults' = IF scheduleResult(postThrows) = ErrPost THEN faults + 1 ELSE faults
         /\ faults' <= budget.faults
         /\ UNCHANGED <<running, workers, jsThreadCount, maxQueueSize, msgs, wstate, wslot, respawn,
                        frames, budget, mathVars, cppModule, batch, nativeCalls>>

\* the timeout callback without `this.taskQueue.delete(taskId)`
timeoutFires_keepsEntry(taskId) ==
    /\ eventLoopIdle
    /\ taskId \in timers
    /\ timers' = timers \ {taskId}
    /\ IF taskId \in taskQueue
       THEN /\ taskQueue' = taskQueue
            /\ promise' = [promise EXCEPT ![taskId] = rejectWith(@, ErrTimeout, Undefined)]
       ELSE UNCHANGED <<taskQueue, promise>>
    /\ UNCHANGED <<running, workers, jsThreadCount, maxQueueSize, nextTaskId, payload, posted, msgs,
                   wstate, wslot, respawn, frames, budget, mathVars,
                   cppModule, batch, nativeCalls, faults>>

\* the setTimeout callback armed by scheduleTask for taskId
timeoutFires(taskId) ==
    /\ eventLoopIdle
    /\ taskId \in timers
    /\ timers' = timers \ {taskId}
    /\ IF taskId \in taskQueue
       THEN /\ taskQueue' = taskQueue \ {taskId}
            /\ promise' = [promise EXCEPT ![taskId] = rejectWith(@, ErrTimeout, Undefined)]
       ELSE UNCHANGED <<taskQueue, promise>>
    /\ UNCHANGED <<running, workers, jsThreadCount, maxQueueSize, nextTaskId, payload, posted, msgs,
                   wstate, wslot, respawn, frames, budget, mathVars,
                   cppModule, batch, nativeCalls, faults>>

\* ------------------------------------------------------ handleWorkerMessage
\* handleWorkerMessage without `this.taskQueue.delete(message.id)`
handleWorkerMessage_keepsEntry(message) ==
    IF message.type # "result"
    THEN UNCHANGED vars
    ELSE IF message.id \notin taskQueue
    THEN UNCHANGED vars
    ELSE /\ timers' = timers \ {message.id}
         /\ taskQueue' = taskQueue
         /\ promise' = [promise EXCEPT ![message.id] =
                          IF message.error # Undefined
                          THEN rejectWith(@, TaskError, message.error)
                          ELSE resolveWith(@, message.result)]
         /\ UNCHANGED <<running, workers, jsThreadCount, maxQueueSize, nextTaskId, payload, posted,
                        msgs, wstate, wslot, respawn, frames, budget, mathVars,
                   cppModule, batch, nativeCalls, faults>>

\* handleWorkerMessage without the test that message.id has an entry
handleWorkerMessage_settlesUnknown(message) ==
    IF message.type # "result"
    THEN UNCHANGED vars
    ELSE /\ timers' = timers \ {message.id}
         /\ taskQueue' = taskQueue \ {message.id}
         /\ promise' = [promise EXCEPT ![message.id] =
                          IF message.error # Undefined
                          THEN rejectWith(@, TaskError, message.error)
                          ELSE resolveWith(@, message.result)]
         /\ UNCHANGED <<running, workers, jsThreadCount, maxQueueSize, nextTaskId, payload, posted,
                        msgs, wstate, wslot, respawn, frames, budget, mathVars,
                        cppModule, batch, nativeCalls, faults>>

\* handleWorkerMessage that takes the oldest entry of the map instead of the
\* entry of message.id
handleWorkerMessage_oldestEntry(message) ==
    IF message.type # "result"
    THEN UNCHANGED vars
    ELSE IF taskQueue = {}
    THEN UNCHANGED vars
    ELSE LET id == CHOOSE t \in taskQueue : \A u \in taskQueue : t <= u IN
         /\ timers' = timers \ {id}
         /\ taskQueue' = taskQueue \ {id}
         /\ promise' = [promise EXCEPT ![id] =
                          IF message.error # Undefined
                          THEN rejectWith(@, TaskError, message.error)
                          ELSE resolveWith(@, message.result)]
         /\ UNCHANGED <<running, workers, jsThreadCount, maxQueueSize, nextTaskId, payload, posted,
                        msgs, wstate, wslot, respawn, frames, budget, mathVars,
                   cppModule, batch, nativeCalls, faults>>

handleWorkerMessage(message) ==
    IF message.type # "result"
    THEN UNCHANGED vars
    ELSE IF message.id \notin taskQueue
    THEN UNCHANGED vars
    ELSE /\ timers' = clearTimeout(timers, message.id)
         /\ taskQueue' = taskQueue \ {message.id}
         /\ promise' = [promise EXCEPT ![message.id] =
                          IF message.error # Undefined
                          THEN rejectWith(@, TaskError, message.error)
                          ELSE resolveWith(@, message.result)]
         /\ UNCHANGED <<running, workers, jsThreadCount, maxQueueSize, nextTaskId, payload, posted,
                        msgs, wstate, wslot, respawn, frames, budget, mathVars,
                   cppModule, batch, nativeCalls, faults>>

\* messages a worker's 'message' listener may be called with: every result a
\* worker has posted (a delivery does not consume it, so late and repeated
\* deliveries are covered) and the status report of every constructed worker
Deliverable ==
    msgs \cup {statusMessage(w) : w \in {x \in Wids : wstate[x] # "unborn"}}
         \cup {errorMessage(w) : w \in {x \in Wids : wstate[x] # "unborn"}}

workerMessage == eventLoopIdle /\ \E m \in Deliverable : handleWorkerMessage(m)

\* ------------------------------------------------------ worker events
\* a handleWorkerError that rejects the tasks posted to the failed worker
workerError_rejectsAssigned(w) ==
    /\ eventLoopIdle
    /\ wstate[w] = "alive"
    /\ wstate' = [wstate EXCEPT ![w] = "errored"]
    /\ respawn' = [respawn EXCEPT ![wslot[w]] = @ + 1]
    /\ faults < budget.faults
    /\ faults' = faults + 1
    /\ taskQueue' = {t \in taskQueue : posted[t] # w}
    /\ timers' = {t \in timers : posted[t] # w}
    /\ promise' = [t \in TaskIds |->
                     IF t \in taskQueue /\ posted[t] = w
                     THEN rejectWith(promise[t], TaskError, Undefined)
                     ELSE promise[t]]
    /\ UNCHANGED <<running, workers, jsThreadCount, maxQueueSize, nextTaskId,
                   payload, posted, msgs, wslot, frames, budget, mathVars,
                   cppModule, batch, nativeCalls>>

\* worker.on('error'): handleWorkerError, then a respawn timer for the slot
workerError(w) ==
    /\ eventLoopIdle
    /\ wstate[w] = "alive"
    /\ wstate' = [wstate EXCEPT ![w] = "errored"]
    /\ respawn' = [respawn EXCEPT ![wslot[w]] = @ + 1]
    /\ faults < budget.faults
    /\ faults' = faults + 1
    /\ UNCHANGED <<running, workers, jsThreadCount, maxQueueSize, taskQueue, timers, nextTaskId,
                   promise, payload, posted, msgs, wslot, frames, budget, mathVars,
                   cppModule, batch, nativeCalls>>

\* worker.on('exit'): drop the worker, respawn timer if still running
workerExit(w) ==
    /\ eventLoopIdle
    /\ wstate[w] \in {"alive", "errored", "terminating"}
    /\ wstate' = [wstate EXCEPT ![w] = "exited"]
    /\ workers' = SelectSeq(workers, LAMBDA x : x # w)
    /\ respawn' = IF running THEN [respawn EXCEPT ![wslot[w]] = @ + 1] ELSE respawn
    \* an exit that follows neither an 'error' nor terminate() is a fault
    /\ faults' = IF wstate[w] = "alive" THEN faults + 1 ELSE faults
    /\ faults' <= budget.faults
    /\ UNCHANGED <<running, jsThreadCount, maxQueueSize, taskQueue, timers, nextTaskId, promise,
                   payload, posted, msgs, wslot, frames, budget, mathVars,
                   cppModule, batch, nativeCalls>>

\* the respawn timer: createWorker(id); `ok` is whether new Worker succeeded
respawnFires(id, ok) ==
    /\ eventLoopIdle
    /\ respawn[id] > 0
    /\ respawn' = [respawn EXCEPT ![id] = @ - 1]
    /\ IF ok
       THEN nextWid + reserved <= budget.workers /\ createWorkers(workers, <<id>>)
       ELSE UNCHANGED <<workers, wstate, wslot>>
    /\ UNCHANGED <<running, jsThreadCount, maxQueueSize, taskQueue, timers, nextTaskId, promise,
                   payload, posted, msgs, frames, budget, mathVars,
                   cppModule, batch, nativeCalls, faults>>

\* ------------------------------------------------------ batch operations
\* the checks without the comparison of the lengths
batchChecks_noLengthCheck(n, m) ==
    IF ~running THEN ErrNotRunning
    ELSE IF n = 0 THEN "empty"
    ELSE "proceed"

\* the checks both batch operations start with: the error thrown, "empty"
\* for `return []`, or "proceed"
batchChecks(n, m) ==
    IF ~running THEN ErrNotRunning
    ELSE IF n # m THEN ErrLength
    ELSE IF n = 0 THEN "empty"
    ELSE "proceed"

\* options.seed || Math.floor(Math.random() * 1000000)
resolveSeed_or(seedOpt, random) ==
    IF seedOpt # Undefined /\ seedOpt # 0 THEN seedOpt ELSE random

\* options.seed ?? Math.floor(Math.random() * 1000000)
resolveSeed(seedOpt, random) == IF seedOpt # Undefined THEN seedOpt ELSE random

\* the condition under which the native batch primitive is called
hasBatchPrimitive == cppModule = "batch"

\* the try block without its catch: the primitive's error leaves the method
nativeOutcome_uncaught(invoked, nativeThrows) ==
    IF ~invoked THEN "skipped"
    ELSE IF nativeThrows THEN "thrown"
    ELSE "returned"

\* try { if (primitive) return primitive(...) } catch { console.warn }:
\* the primitive is skipped, its result is returned, or its error is caught
nativeOutcome(invoked, nativeThrows) ==
    IF ~invoked THEN "skipped"
    ELSE IF nativeThrows THEN "caught"
    ELSE "returned"

\* the call of the primitive: the full arrays and the resolved seed
nativeCall(op, n, m, seedOpt, random) ==
    [op |-> op, startPoints |-> points(n), endPoints |-> points(m),
     seed |-> resolveSeed(seedOpt, random)]

batchRejected(call, kind) == [call EXCEPT !.state = "rejected", !.kind = kind]
batchResolved(call, path, paths) ==
    [call EXCEPT !.state = "resolved", !.kind = "value", !.path = path, !.result = paths]

\* Math.max(1, Math.ceil(n / this.workers.length)); without workers the
\* quotient is Infinity and the one slice takes every point
\* for a worker list of length w; this one rounds the quotient down
batchSizeFor_floor(n, w) ==
    IF w = 0 THEN n
    ELSE Max(1, n \div w)

batchSizeFor(n, w) ==
    IF w = 0 THEN n
    ELSE Max(1, (n + w - 1) \div w)

batchSize(n) == batchSizeFor(n, Len(workers))

\* one slice per point, whatever the number of workers
batchesFor_perPoint(n, w) ==
    [k \in 1 .. n |-> [first |-> k, last |-> k]]

\* the slices [i, i + batchSize) of arrays of length n, by first and last
\* position, for a worker list of length w
batchesFor(n, w) ==
    [k \in 1 .. ((n + batchSizeFor(n, w) - 1) \div batchSizeFor(n, w)) |->
        [first |-> (k - 1) * batchSizeFor(n, w) + 1,
         last |-> Min(k * batchSizeFor(n, w), n)]]

batches(n) == batchesFor(n, Len(workers))

\* processBatch as the worker receives it: task.toString() of an async arrow
\* function that calls this.generateBezierPath. worker.js cannot rebuild it
\* (evaluateFunction takes "async (batch)" for the parameter list) and, if
\* rebuilt, it would run without `this`: the worker answers with an error
\* (workerReply).
processBatch(b) == [fn |-> "processBatch", arg |-> b.first]

\* scheduleResult for a registry q (the registry grows while chunks are
\* submitted)
scheduleResultIn(q, postThrows) ==
    IF ~running THEN ErrNotRunning
    ELSE IF Cardinality(q) >= maxQueueSize THEN ErrQueueFull
    ELSE IF Len(workers) = 0 THEN ErrNoWorkers
    ELSE IF postThrows THEN ErrPost
    ELSE Accepted

\* what the calls of scheduleTask made by one batch call read and write
PoolState ==
    [taskQueue |-> taskQueue, timers |-> timers, nextTaskId |-> nextTaskId,
     promise |-> promise, posted |-> posted, payload |-> payload, chunks |-> <<>>]

\* this.scheduleTask(processBatch, batch) in the state st
scheduleBatch(st, b, postThrows) ==
    LET res == scheduleResultIn(st.taskQueue, postThrows)
        taskId == st.nextTaskId
    IN  IF res \in {ErrNotRunning, ErrQueueFull}
        THEN [st EXCEPT !.chunks = Append(@, [id |-> Undefined, kind |-> res,
                                              first |-> b.first, last |-> b.last])]
        ELSE IF res = Accepted
        THEN [st EXCEPT !.nextTaskId = taskId + 1,
                        !.timers = armTimeout(@, taskId),
                        !.taskQueue = @ \cup {taskId},
                        !.posted[taskId] = selectWorker(taskId),
                        !.payload[taskId] = processBatch(b),
                        !.chunks = Append(@, [id |-> taskId, kind |-> "none",
                                              first |-> b.first, last |-> b.last])]
        ELSE [st EXCEPT !.nextTaskId = taskId + 1,
                        !.promise[taskId] = rejectWith(@, res, Undefined),
                        !.chunks = Append(@, [id |-> taskId, kind |-> "none",
                                              first |-> b.first, last |-> b.last])]

\* batches.map(batch => this.scheduleTask(processBatch, batch)), from the
\* k-th batch on; throwsAt: the batches whose postMessage throws
RECURSIVE scheduleBatches(_, _, _, _)
scheduleBatches(st, bs, k, throwsAt) ==
    IF k > Len(bs) THEN st
    ELSE scheduleBatches(scheduleBatch(st, bs[k], k \in throwsAt), bs, k + 1, throwsAt)

\* the batches whose postMessage threw
postFailures(st) ==
    {k \in 1 .. Len(st.chunks) :
        st.chunks[k].id # Undefined /\ st.promise[st.chunks[k].id].kind = ErrPost}

\* the paths a chunk's task is to return: one per point of its slice
chunkPaths(c) == [i \in 1 .. (c.last - c.first + 1) |-> c.first + i - 1]

\* batchResults.flat()
RECURSIVE flat(_)
flat(cs) == IF cs = <<>> THEN <<>> ELSE chunkPaths(Head(cs)) \o flat(Tail(cs))

\* generateBezierPaths(startPoints, endPoints, options) up to its await.
\* n, m: the lengths of the arrays; nativeThrows: the primitive throws;
\* throwsAt: the batches whose postMessage throws.
generateBezierPaths(n, m, seedOpt, random, nativeThrows, throwsAt) ==
    LET call == [NoBatch EXCEPT !.op = "bezier", !.n = n]
        invoked == batchChecks(n, m) = "proceed" /\ hasBatchPrimitive
    IN
    /\ batch.state = "idle"
    /\ nativeThrows => invoked
    /\ nativeCalls' = IF invoked
                      THEN Append(nativeCalls, nativeCall("bezier", n, m, seedOpt, random))
                      ELSE nativeCalls
    /\ IF batchChecks(n, m) \in {ErrNotRunning, ErrLength}
       THEN /\ throwsAt = {}
            /\ batch' = batchRejected(call, batchChecks(n, m))
            /\ UNCHANGED <<taskQueue, timers, nextTaskId, promise, posted, payload, faults>>
       ELSE IF batchChecks(n, m) = "empty"
       THEN /\ throwsAt = {}
            /\ batch' = batchResolved(call, "none", <<>>)
            /\ UNCHANGED <<taskQueue, timers, nextTaskId, promise, posted, payload, faults>>
       ELSE IF nativeOutcome(invoked, nativeThrows) = "returned"
       THEN /\ throwsAt = {}
            /\ batch' = batchResolved(call, "native", points(n))
            /\ UNCHANGED <<taskQueue, timers, nextTaskId, promise, posted, payload, faults>>
       ELSE IF nativeOutcome(invoked, nativeThrows) = "thrown"
       THEN /\ throwsAt = {}
            /\ batch' = batchRejected(call, ErrNative)
            /\ faults' = faults + 1
            /\ faults' <= budget.faults
            /\ UNCHANGED <<taskQueue, timers, nextTaskId, promise, posted, payload>>
       ELSE \* fallback: worker threads
            /\ nextTaskId + Len(batches(n)) <= budget.tasks
            /\ LET st == scheduleBatches(PoolState, batches(n), 1, throwsAt) IN
                 /\ postFailures(st) = throwsAt
                 /\ faults' = faults + Cardinality(throwsAt) + (IF nativeThrows THEN 1 ELSE 0)
                 /\ faults' <= budget.faults
                 /\ taskQueue' = st.taskQueue
                 /\ timers' = st.timers
                 /\ nextTaskId' = st.nextTaskId
                 /\ promise' = st.promise
                 /\ posted' = st.posted
                 /\ payload' = st.payload
                 /\ batch' = [call EXCEPT !.state = "pending", !.path = "workers",
                                          !.chunks = st.chunks]
    /\ UNCHANGED <<running, workers, jsThreadCount, maxQueueSize, msgs, wstate, wslot, respawn,
                   frames, budget, mathVars, cppModule>>

\* a continuation that returns the paths of the chunks that did resolve
batchContinue_bestEffort ==
    /\ batchReady
    /\ batch' = [batch EXCEPT !.state = "resolved", !.kind = "value",
                              !.result = flat(SelectSeq(batch.chunks,
                                  LAMBDA c : chunkPromise(c).state = "resolved"))]
    /\ UNCHANGED <<running, workers, jsThreadCount, maxQueueSize, taskQueue, timers, nextTaskId,
                   promise, payload, posted, msgs, wstate, wslot, respawn, frames, budget, mathVars,
                   faults, cppModule, nativeCalls>>

\* the continuation of `await Promise.all(...)`: the first rejection is
\* thrown, or the results are flattened in chunk order
batchContinue ==
    /\ batchReady
    /\ batch' = IF rejectedChunks(batch) # {}
                THEN LET p == chunkPromise(batch.chunks[firstRejected(batch)]) IN
                     [batch EXCEPT !.state = "rejected", !.kind = p.kind, !.value = p.value]
                ELSE [batch EXCEPT !.state = "resolved", !.kind = "value",
                                   !.result = flat(batch.chunks)]
    /\ UNCHANGED <<running, workers, jsThreadCount, maxQueueSize, taskQueue, timers, nextTaskId,
                   promise, payload, posted, msgs, wstate, wslot, respawn, frames, budget, mathVars,
                   faults, cppModule, nativeCalls>>

\* simulatePhysicsMovements(startPoints, endPoints, options): the same
\* checks and primitive call; the fallback computes a linear path per point
\* on the calling thread.
simulatePhysicsMovements(n, m, seedOpt, random, nativeThrows) ==
    LET call == [NoBatch EXCEPT !.op = "physics", !.n = n]
        invoked == batchChecks(n, m) = "proceed" /\ hasBatchPrimitive
    IN
    /\ batch.state = "idle"
    /\ nativeThrows => invoked
    /\ nativeCalls' = IF invoked
                      THEN Append(nativeCalls, nativeCall("physics", n, m, seedOpt, random))
                      ELSE nativeCalls
    /\ batch' = IF batchChecks(n, m) \in {ErrNotRunning, ErrLength}
                THEN batchRejected(call, batchChecks(n, m))
                ELSE IF batchChecks(n, m) = "empty"
                THEN batchResolved(call, "none", <<>>)
                ELSE IF nativeOutcome(invoked, nativeThrows) = "returned"
                THEN batchResolved(call, "native", points(n))
                ELSE IF nativeOutcome(invoked, nativeThrows) = "thrown"
                THEN batchRejected(call, ErrNative)
                ELSE batchResolved(call, "linear", points(n))
    /\ faults' = faults + (IF nativeThrows THEN 1 ELSE 0)
    /\ faults' <= budget.faults
    /\ UNCHANGED <<running, workers, jsThreadCount, maxQueueSize, taskQueue, timers, nextTaskId,
                   promise, payload, posted, msgs, wstate, wslot, respawn, frames, budget, mathVars,
                   cppModule>>

\* ------------------------------------------------------------ accessors
isRunning == running
getWorkerCount == Len(workers)

\* the workers in this.workers that have neither failed nor been terminated
liveWorkers == {w \in Range(workers) : wstate[w] = "alive"}

\* ====================================================== MathModuleFactory
\* enum MathModuleType, in declaration order
TYPESCRIPT == "typescript"
CPP == "cpp"
PYTHON == "python"
FORTRAN == "fortran"
MathModuleType == <<TYPESCRIPT, CPP, PYTHON, FORTRAN>>
Kinds == Range(MathModuleType)

\* The module classes that define isAvailable(): CppMathModule does;
\* TypeScriptMathModule, PythonMathModule and FortranMathModule do not, so
\* `module.isAvailable && await module.isAvailable()` is falsy for them.
definesIsAvailable(kind) == kind = CPP

\* what constructing an optional backend and asking it can give: it reports
\* itself available, reports itself unavailable, or construction throws
Outcomes == {"available", "unavailable", "throws"}

\* a module object is named by the run that constructed it and its kind
NoInstance == [run |-> 0, kind |-> "none"]
has(type) == instances[type] # NoInstance

\* the static methods that callers use
Ops == {"initialize", "getModule", "setActiveType", "isModuleAvailable",
        "benchmarkAndSelectBest"}

\* benchmark test cases: the operation of each, and the weight of an
\* operation's score (1.5, 1.2, 0.8) in tenths
testCases == <<"bezier", "bezier", "minimumJerk", "physics">>
weight(operation) ==
    IF operation = "bezier" THEN 15
    ELSE IF operation = "minimumJerk" THEN 12
    ELSE 8
\* 1000 / avgTime of a measurement
Speeds == {1, 2}

NoResults == [k \in Kinds |-> 0]

\* A call of a static method: the operation and its argument; where it
\* stands (owner: awaiting the run it started; join: awaiting the run in
\* flight; body: about to run the method's own code; measure: inside the
\* benchmark loop); the state and value of the promise it returned; for a
\* benchmark, the (test case, kind) pair it is at and the scores so far.
NewCall(op, type) ==
    [op |-> op, type |-> type, phase |-> "body", run |-> 0,
     state |-> "pending", value |-> "none",
     availableTypes |-> <<>>, at |-> 0, results |-> NoResults]

resolved(c, v) == [c EXCEPT !.phase = "done", !.state = "resolved", !.value = v]
rejected(c) == [c EXCEPT !.phase = "done", !.state = "rejected"]

\* ------------------------------------------------------------ initialize
\* initialize() without the test of isInitializing
initializeEntry_noJoin ==
    IF isInitialized THEN "return"
    ELSE "run"

\* initialize() up to its await: return at once, return the promise of the
\* initialization in flight, or start initializeModules()
initializeEntry ==
    IF isInitialized THEN "return"
    ELSE IF isInitializing THEN "join"
    ELSE "run"

\* ------------------------------------------------------ initializeModules
\* a default selection that takes C++ without looking at the registry
getBestAvailableType_unchecked(reg) == CPP

\* getBestAvailableType() for a registry
getBestAvailableType(reg) ==
    IF reg[CPP] # NoInstance THEN CPP
    ELSE IF reg[FORTRAN] # NoInstance THEN FORTRAN
    ELSE IF reg[PYTHON] # NoInstance THEN PYTHON
    ELSE TYPESCRIPT

nextBackend(kind) ==
    IF kind = TYPESCRIPT THEN CPP
    ELSE IF kind = CPP THEN PYTHON
    ELSE IF kind = PYTHON THEN FORTRAN
    ELSE "best"

\* initializeModules whose optional backends are constructed outside try
runStep_noCatch(r, outcome) ==
    /\ r \in 1 .. Len(runs)
    /\ runs[r].state = "pending"
    /\ LET kind == runs[r].at IN
       IF kind = "best"
       THEN /\ outcome = "available"
            /\ activeType' = getBestAvailableType(instances)
            /\ runs' = [runs EXCEPT ![r].state = "resolved"]
            /\ UNCHANGED instances
       ELSE IF outcome = "throws"
       THEN /\ runs' = [runs EXCEPT ![r].state = "rejected"]
            /\ UNCHANGED <<instances, activeType>>
       ELSE /\ instances' =
                 IF kind = TYPESCRIPT \/ (definesIsAvailable(kind) /\ outcome = "available")
                 THEN [instances EXCEPT ![kind] = [run |-> r, kind |-> kind]]
                 ELSE instances
            /\ runs' = [runs EXCEPT ![r].at = nextBackend(kind)]
            /\ UNCHANGED activeType
    /\ UNCHANGED <<isInitialized, isInitializing, initializationPromise, calls>>
    /\ UNCHANGED <<poolVars, cppVars, pointVars>>

\* one step of initializeModules(), from one await to the next: the
\* TypeScript module is created and registered (or its import fails and the
\* run rejects); an optional backend is constructed and registered when it
\* defines isAvailable() and reports true, its failure being caught; the
\* active type is set to the best available and the run resolves.
runStep(r, outcome) ==
    /\ r \in 1 .. Len(runs)
    /\ runs[r].state = "pending"
    /\ LET kind == runs[r].at IN
       IF kind = "best"
       THEN /\ outcome = "available"
            /\ activeType' = getBestAvailableType(instances)
            /\ runs' = [runs EXCEPT ![r].state = "resolved"]
            /\ UNCHANGED instances
       ELSE IF kind = TYPESCRIPT /\ outcome = "throws"
       THEN /\ runs' = [runs EXCEPT ![r].state = "rejected"]
            /\ UNCHANGED <<instances, activeType>>
       ELSE /\ kind = TYPESCRIPT => outcome = "available"
            /\ instances' =
                 IF kind = TYPESCRIPT \/ (definesIsAvailable(kind) /\ outcome = "available")
                 THEN [instances EXCEPT ![kind] = [run |-> r, kind |-> kind]]
                 ELSE instances
            /\ runs' = [runs EXCEPT ![r].at = nextBackend(kind)]
            /\ UNCHANGED activeType
    /\ UNCHANGED <<isInitialized, isInitializing, initializationPromise, calls>>
    /\ UNCHANGED <<poolVars, cppVars, pointVars>>

\* ------------------------------------------------------ method bodies
\* the registered kinds, in the order of Object.values(MathModuleType)
registered == SelectSeq(MathModuleType, has)

\* getModule without the fallback to the active type
getModule_noFallback(type) == instances[type]

\* getModule(type) after initialization: the instance of type, or of the
\* active type when type is not registered
getModule(type) == instances[IF has(type) THEN type ELSE activeType]

\* the (test case, kind) pairs of the benchmark loops, in order
pairs(types) ==
    [i \in 1 .. (Len(testCases) * Len(types)) |->
        [operation |-> testCases[((i - 1) \div Len(types)) + 1],
         type |-> types[((i - 1) % Len(types)) + 1]]]

\* the selection loop over Object.entries(results), from the k-th entry on
RECURSIVE selectBest(_, _, _, _)
selectBest(results, k, bestModule, bestScore) ==
    IF k > Len(MathModuleType) THEN bestModule
    ELSE IF results[MathModuleType[k]] > bestScore /\ has(MathModuleType[k])
    THEN selectBest(results, k + 1, MathModuleType[k], results[MathModuleType[k]])
    ELSE selectBest(results, k + 1, bestModule, bestScore)

\* a selection loop that keeps the lowest score
RECURSIVE selectWorst(_, _, _, _)
selectWorst(results, k, bestModule, bestScore) ==
    IF k > Len(MathModuleType) THEN bestModule
    ELSE IF results[MathModuleType[k]] < bestScore /\ has(MathModuleType[k])
    THEN selectWorst(results, k + 1, MathModuleType[k], results[MathModuleType[k]])
    ELSE selectWorst(results, k + 1, bestModule, bestScore)

bestOf_lowest(results) == selectWorst(results, 1, TYPESCRIPT, results[TYPESCRIPT])

bestOf(results) == selectBest(results, 1, TYPESCRIPT, results[TYPESCRIPT])

\* getCurrentType()
getCurrentType == activeType

\* setActiveType that does not test the registry
setActive_unchecked(type) == [ok |-> TRUE, active |-> type]

\* setActiveType(type) after initialization: what it returns and the active
\* type it leaves
setActive(type) ==
    IF has(type) THEN [ok |-> TRUE, active |-> type]
    ELSE [ok |-> FALSE, active |-> activeType]

\* benchmarkAndSelectBest that measures a lone TypeScript backend too
onlyTypeScript_never(types) == FALSE

\* availableTypes.length === 1 && availableTypes[0] === TYPESCRIPT
onlyTypeScript(types) == Len(types) = 1 /\ types[1] = TYPESCRIPT

\* The method's own code, run once initialization is ensured, up to its
\* return or its next await: what becomes of the call c ...
bodyCall(c) ==
    IF c.op = "initialize" THEN resolved(c, "none")
    ELSE IF c.op = "getModule" THEN resolved(c, getModule(c.type))
    ELSE IF c.op = "isModuleAvailable" THEN resolved(c, has(c.type))
    ELSE IF c.op = "setActiveType" THEN resolved(c, setActive(c.type).ok)
    ELSE IF onlyTypeScript(registered) THEN resolved(c, TYPESCRIPT)
    ELSE [c EXCEPT !.phase = "measure", !.availableTypes = registered, !.at = 1]

\* ... and the active type it leaves
bodyActive(c) ==
    IF c.op = "setActiveType" THEN setActive(c.type).active ELSE activeType

\* ------------------------------------------------------------ the calls
\* the calls of benchmarkAndSelectBest() so far
benchmarks == {i \in 1 .. Len(calls) : calls[i].op = "benchmarkAndSelectBest"}

\* the kinds that callers pass: the registered ones and one that never is
ArgKinds == {TYPESCRIPT, CPP, PYTHON}

\* A run of initializeModules(): the backend it constructs next (or "best"),
\* whether it settled, and whether its owner's continuation in initialize()
\* has run
NewRun == [at |-> TYPESCRIPT, state |-> "pending", awaited |-> FALSE]

\* A call of a static method, up to its first await. Each method starts with
\* `if (!this.isInitialized) await this.initialize()`; initialize() itself
\* returns, joins the run in flight, or starts one and awaits it.
call(op, type) ==
    LET c == NewCall(op, type) IN
    /\ op \in {"initialize", "benchmarkAndSelectBest"} => type = TYPESCRIPT
    /\ UNCHANGED <<poolVars, cppVars, pointVars>>
    /\ IF initializeEntry = "return"
       THEN /\ calls' = Append(calls, bodyCall(c))
            /\ activeType' = bodyActive(c)
            /\ UNCHANGED <<instances, isInitialized, isInitializing,
                           initializationPromise, runs>>
       ELSE IF initializeEntry = "join"
       THEN /\ calls' = Append(calls, [c EXCEPT !.phase = "join",
                                                !.run = initializationPromise])
            /\ UNCHANGED <<instances, activeType, isInitialized, isInitializing,
                           initializationPromise, runs>>
       ELSE /\ Len(runs) < MaxRuns
            /\ isInitializing' = TRUE
            /\ runs' = Append(runs, NewRun)
            /\ initializationPromise' = Len(runs) + 1
            /\ calls' = Append(calls, [c EXCEPT !.phase = "owner", !.run = Len(runs) + 1])
            /\ UNCHANGED <<instances, activeType, isInitialized>>

\* initialize() after `await this.initializationPromise`, in the call that
\* started the run: isInitialized is set when the run resolved, and
\* isInitializing is cleared in either case; a rejection propagates.
ownerContinue(i) ==
    /\ i \in 1 .. Len(calls)
    /\ calls[i].phase = "owner"
    /\ runs[calls[i].run].state # "pending"
    /\ isInitializing' = FALSE
    /\ runs' = [runs EXCEPT ![calls[i].run].awaited = TRUE]
    /\ IF runs[calls[i].run].state = "resolved"
       THEN /\ isInitialized' = TRUE
            /\ calls' = [calls EXCEPT ![i] =
                  IF @.op = "initialize" THEN resolved(@, "none")
                  ELSE [@ EXCEPT !.phase = "body"]]
       ELSE /\ calls' = [calls EXCEPT ![i] = rejected(@)]
            /\ UNCHANGED isInitialized
    /\ UNCHANGED <<instances, activeType, initializationPromise>>
    /\ UNCHANGED <<poolVars, cppVars, pointVars>>

\* a call that joined a run, after that run settled: its reaction was
\* attached after the owner's, so it runs after the owner's continuation
waiterContinue(i) ==
    /\ i \in 1 .. Len(calls)
    /\ calls[i].phase = "join"
    /\ runs[calls[i].run].awaited
    /\ calls' = [calls EXCEPT ![i] =
          IF runs[@.run].state = "rejected" THEN rejected(@)
          ELSE IF @.op = "initialize" THEN resolved(@, "none")
          ELSE [@ EXCEPT !.phase = "body"]]
    /\ UNCHANGED <<instances, activeType, isInitialized, isInitializing,
                   initializationPromise, runs>>
    /\ UNCHANGED <<poolVars, cppVars, pointVars>>

\* a method resumes after `await this.initialize()` and runs its own code
opContinue(i) ==
    /\ i \in 1 .. Len(calls)
    /\ calls[i].phase = "body"
    /\ calls' = [calls EXCEPT ![i] = bodyCall(@)]
    /\ activeType' = bodyActive(calls[i])
    /\ UNCHANGED <<instances, isInitialized, isInitializing, initializationPromise, runs>>
    /\ UNCHANGED <<poolVars, cppVars, pointVars>>

\* One (test case, kind) pair of the benchmark loops: getModule(kind), three
\* timed runs of the operation, and the weighted score added to the kind's
\* total; an operation that throws rejects the benchmark. After the last
\* pair the best kind is selected, made active and returned.
measure(i, speed, throws) ==
    /\ i \in 1 .. Len(calls)
    /\ calls[i].phase = "measure"
    /\ LET c == calls[i]
           pair == pairs(c.availableTypes)[c.at]
           results == [c.results EXCEPT ![pair.type] = @ + speed * weight(pair.operation)]
           last == c.at = Len(pairs(c.availableTypes))
       IN
       IF throws
       THEN calls' = [calls EXCEPT ![i] = rejected(@)] /\ UNCHANGED activeType
       ELSE IF last
       THEN /\ calls' = [calls EXCEPT ![i] = resolved([@ EXCEPT !.results = results],
                                                      bestOf(results))]
            /\ activeType' = bestOf(results)
       ELSE /\ calls' = [calls EXCEPT ![i] = [@ EXCEPT !.results = results, !.at = @ + 1]]
            /\ UNCHANGED activeType
    /\ UNCHANGED <<instances, isInitialized, isInitializing, initializationPromise, runs>>
    /\ UNCHANGED <<poolVars, cppVars, pointVars>>

\* The module's state after its import: the registry is empty, the active
\* type is TYPESCRIPT and `MathModuleFactory.initialize()` has been called,
\* so the first run is in flight, awaited by that call.
MathInit ==
    /\ instances = [k \in Kinds |-> NoInstance]
    /\ activeType = TYPESCRIPT
    /\ isInitialized = FALSE
    /\ isInitializing = TRUE
    /\ initializationPromise = 1
    /\ runs = <<NewRun>>
    /\ calls = <<[NewCall("initialize", TYPESCRIPT) EXCEPT !.phase = "owner", !.run = 1]>>

\* the steps of the factory that are not calls
factoryStep ==
    \/ \E r \in 1 .. MaxRuns, outcome \in Outcomes : runStep(r, outcome)
    \/ \E i \in 1 .. MaxCalls + 1 : ownerContinue(i)
    \/ \E i \in 1 .. MaxCalls + 1 : waiterContinue(i)
    \/ \E i \in 1 .. MaxCalls + 1 : opContinue(i)

\* callers that never benchmark
FactoryNext ==
    \/ \E op \in Ops \ {"benchmarkAndSelectBest"}, type \in ArgKinds :
          Len(calls) <= MaxCalls /\ call(op, type)
    \/ factoryStep

\* callers that benchmark and set the active type, such as the constructors
\* of several StrategyFactory objects
OverlapNext ==
    \/ \E op \in {"benchmarkAndSelectBest", "setActiveType"}, type \in ArgKinds :
          Len(calls) <= OverlapCalls /\ call(op, type)
    \/ factoryStep
    \/ \E i \in 1 .. MaxCalls + 1, speed \in Speeds : measure(i, speed, FALSE)

\* callers that may benchmark
BenchNext ==
    \/ \E op \in Ops, type \in ArgKinds :
          /\ Len(calls) <= BenchCalls
          /\ op = "benchmarkAndSelectBest" => Cardinality(benchmarks) < MaxBenchmarks
          /\ call(op, type)
    \/ \E r \in 1 .. MaxRuns, outcome \in Outcomes : runStep(r, outcome)
    \/ \E i \in 1 .. MaxCalls + 1 : ownerContinue(i)
    \/ \E i \in 1 .. MaxCalls + 1 : waiterContinue(i)
    \/ \E i \in 1 .. MaxCalls + 1 : opContinue(i)
    \/ \E i \in 1 .. MaxCalls + 1, speed \in Speeds, throws \in BOOLEAN : measure(i, speed, throws)

\* ========================================================== CppMathModule
\* Where the module runs: Node.js with the addon built ("addon") or not
\* ("node"), a browser with the WebAssembly build ("wasm") or not ("browser")
Environments == {"addon", "node", "wasm", "browser"}

MAX_INIT_ATTEMPTS == 3

\* the operations of the MathModule interface that CppMathModule offers
CppOps == {"generateBezierCurve", "generateBezierPath", "generateMinimumJerkTrajectory",
           "generateOrnsteinUhlenbeckProcess", "simulatePhysicsMovement",
           "applyVelocityProfile"}

\* the count argument of an operation (numPoints, points)
Counts == -1 .. 2
\* the options argument of simulatePhysicsMovement
PhysicsOptions == {"undefined", "defaults"}
\* the length of the path passed to applyVelocityProfile and of a simulated
\* physics path
PathLength == 2

\* The module object when its constructor returns: initModule() has run up
\* to its first await, or to its end when require() of the addon succeeded.
NewModule(env) ==
    [env |-> env,
     moduleReady |-> env = "addon",
     initAttempts |-> 1,
     initPromise |-> IF env = "addon" THEN "settled" ELSE "pending"]

\* the implementation a ready module calls: this.nativeModule in Node.js,
\* this.wasmModule in a browser
implementation(m) == IF m.env = "addon" THEN "native" ELSE "wasm"

\* _initModule() resumes: the WebAssembly import settled (the module is
\* ready, or a stub is installed and the module stays not ready), or the
\* retry timer fired and require() failed again; after MAX_INIT_ATTEMPTS the
\* module stays not ready. initModule()'s promise never rejects.
cppInitStep ==
    /\ cppMath.initPromise = "pending"
    /\ cppMath' =
          IF cppMath.env = "wasm"
          THEN [cppMath EXCEPT !.moduleReady = TRUE, !.initPromise = "settled"]
          ELSE IF cppMath.env = "browser"
          THEN [cppMath EXCEPT !.initPromise = "settled"]
          ELSE [cppMath EXCEPT !.initAttempts = @ + 1,
                               !.initPromise = IF cppMath.initAttempts + 1 < MAX_INIT_ATTEMPTS
                                               THEN "pending" ELSE "settled"]
    /\ UNCHANGED cppCalls
    /\ UNCHANGED <<poolVars, factoryVars, pointVars>>

NewCppCall(op, n, options) ==
    [op |-> op, n |-> n, options |-> options, phase |-> "init",
     state |-> "pending", by |-> "none", length |-> 0]

\* the argument checks an operation makes before it calls the implementation;
\* simulatePhysicsMovement checks (and destructures) its options only on the
\* WebAssembly path
invalid(c, impl) ==
    IF c.op \in {"generateBezierCurve", "generateBezierPath",
                 "generateMinimumJerkTrajectory", "applyVelocityProfile"}
    THEN c.n < 2
    ELSE IF c.op = "generateOrnsteinUhlenbeckProcess" THEN c.n < 1
    ELSE impl = "wasm" /\ c.options = "undefined"

\* the length of what the native or WebAssembly implementation returns
nativeLength(c) == IF c.op = "simulatePhysicsMovement" THEN PathLength ELSE c.n

\* TypeScriptMathModule: whether the operation throws on these arguments
\* (Array(points) with a negative length; destructuring undefined options)
tsThrows(c) ==
    \/ c.op = "generateOrnsteinUhlenbeckProcess" /\ c.n < 0
    \/ c.op = "simulatePhysicsMovement" /\ c.options = "undefined"

\* TypeScriptMathModule: the length of what the operation returns
tsLength(c) ==
    IF c.op \in {"generateBezierCurve", "generateBezierPath",
                 "generateMinimumJerkTrajectory"}
    THEN (IF c.n > 0 THEN c.n ELSE 0)
    ELSE IF c.op = "generateOrnsteinUhlenbeckProcess" THEN (IF c.n > 1 THEN c.n ELSE 1)
    ELSE IF c.op = "simulatePhysicsMovement" THEN PathLength
    ELSE (IF c.n > 2 THEN c.n ELSE 2)

\* the catch block after `await import('./TypeScriptMathModule')`: the
\* operation returns what the TypeScript one returns, or rejects as it does
fallback(c) ==
    IF tsThrows(c)
    THEN [c EXCEPT !.phase = "done", !.state = "rejected", !.by = "typescript"]
    ELSE [c EXCEPT !.phase = "done", !.state = "resolved", !.by = "typescript",
                   !.length = tsLength(c)]

\* The try block of an operation from the second test of moduleReady on: it
\* throws when the module is not ready, when an argument check fails or when
\* the implementation throws, and the catch block then awaits the import of
\* the TypeScript module; otherwise the implementation's result is returned.
attempt(c, nativeThrows) ==
    IF \/ ~cppMath.moduleReady
       \/ invalid(c, implementation(cppMath))
       \/ nativeThrows
    THEN [c EXCEPT !.phase = "fallback"]
    ELSE [c EXCEPT !.phase = "done", !.state = "resolved",
                   !.by = implementation(cppMath), !.length = nativeLength(c)]

\* A call of an operation, up to its first await: `await this.initModule()`
\* when the module is not ready, else the try block.
cppCall(op, n, options, nativeThrows) ==
    /\ Len(cppCalls) < MaxCppCalls
    /\ op = "simulatePhysicsMovement" => n = PathLength
    /\ op # "simulatePhysicsMovement" => options = "defaults"
    /\ cppCalls' = Append(cppCalls,
          IF cppMath.moduleReady THEN attempt(NewCppCall(op, n, options), nativeThrows)
          ELSE NewCppCall(op, n, options))
    /\ UNCHANGED cppMath
    /\ UNCHANGED <<poolVars, factoryVars, pointVars>>

\* an operation resumes after `await this.initModule()`
cppResume(i, nativeThrows) ==
    /\ i \in 1 .. Len(cppCalls)
    /\ cppCalls[i].phase = "init"
    /\ cppMath.initPromise = "settled"
    /\ cppCalls' = [cppCalls EXCEPT ![i] = attempt(@, nativeThrows)]
    /\ UNCHANGED cppMath
    /\ UNCHANGED <<poolVars, factoryVars, pointVars>>

\* an operation resumes in its catch block after the import
cppFallback(i) ==
    /\ i \in 1 .. Len(cppCalls)
    /\ cppCalls[i].phase = "fallback"
    /\ cppCalls' = [cppCalls EXCEPT ![i] = fallback(@)]
    /\ UNCHANGED cppMath
    /\ UNCHANGED <<poolVars, factoryVars, pointVars>>

\* ========================================================== PointPool
MaxInitialSize == 2    \* the largest initialSize passed to the constructor
MaxPoolSize == 3       \* the largest maxSize passed to the constructor
MaxAllocations == 4    \* calls of allocate()
MaxReleases == 3       \* calls of release()

\* the constructor's arguments
InitialSizes == 0 .. MaxInitialSize
MaxSizeOptions == {Undefined} \cup (0 .. MaxPoolSize)

\* the Point objects a run can create: those of the pool and one per
\* allocate()
Points == 1 .. (2 * MaxInitialSize + MaxPoolSize + MaxAllocations)

\* count new Point objects, created after the first `from`
newPoints(from, count) == [i \in 1 .. count |-> from + i]

\* new PointPool(initialSize, maxSize, autoExpand): maxSize || initialSize * 2
PointPool(initialSize, maxSizeOpt, autoExpandOpt) ==
    /\ pool = newPoints(0, initialSize)
    /\ currentIndex = 0
    /\ maxSize = IF maxSizeOpt \in {Undefined, 0} THEN initialSize * 2 ELSE maxSizeOpt
    /\ autoExpand = autoExpandOpt
    /\ allocations = 0
    /\ releases = 0
    /\ created = initialSize
    /\ holders = [o \in Points |-> 0]
    /\ point = Undefined

\* allocate() finds the pool used up and may not expand it
exhausted == currentIndex >= Len(pool) /\ ~(autoExpand /\ Len(pool) < maxSize)

\* the pool after the expansion in allocate(): it doubles, up to maxSize
expanded ==
    IF currentIndex >= Len(pool) /\ autoExpand /\ Len(pool) < maxSize
    THEN pool \o newPoints(created, Min(Len(pool) * 2, maxSize) - Len(pool))
    ELSE pool

\* what allocate() returns: a new object that is not pooled when the pool is
\* exhausted, else this.pool[this.currentIndex]; an empty pool expands by
\* nothing, and writing the coordinates of the missing object throws
allocated ==
    IF exhausted THEN created + 1
    ELSE IF currentIndex + 1 <= Len(expanded) THEN expanded[currentIndex + 1]
    ELSE Undefined

\* allocate(x, y)
allocate ==
    /\ allocations' = allocations + 1
    /\ pool' = expanded
    /\ point' = allocated
    /\ created' = IF exhausted THEN created + 1
                  ELSE created + (Len(expanded) - Len(pool))
    /\ currentIndex' = IF exhausted THEN currentIndex ELSE currentIndex + 1
    /\ holders' = IF allocated = Undefined THEN holders
                  ELSE [holders EXCEPT ![allocated] = @ + 1]
    /\ UNCHANGED <<maxSize, autoExpand, releases>>
    /\ UNCHANGED <<poolVars, factoryVars, cppVars>>

\* release(p), called by a holder of p: the argument is ignored
release(p) ==
    /\ holders[p] > 0
    /\ releases' = releases + 1
    /\ currentIndex' = IF currentIndex > 0 THEN currentIndex - 1 ELSE currentIndex
    /\ holders' = [holders EXCEPT ![p] = @ - 1]
    /\ UNCHANGED <<pool, maxSize, autoExpand, allocations, created, point>>
    /\ UNCHANGED <<poolVars, factoryVars, cppVars>>

\* reset(): every Point may be reused, so every holder has let go
reset ==
    /\ currentIndex' = 0
    /\ holders' = [o \in Points |-> 0]
    /\ UNCHANGED <<pool, maxSize, autoExpand, allocations, releases, created, point>>
    /\ UNCHANGED <<poolVars, factoryVars, cppVars>>

\* a PointPool that nobody uses
PointIdle == PointPool(1, Undefined, TRUE)

PointNext ==
    \/ allocations < MaxAllocations /\ allocate
    \/ releases < MaxReleases /\ \E p \in Points : release(p)
    \/ reset

\* a CppMathModule that nobody calls
CppIdle == cppMath = NewModule("addon") /\ cppCalls = <<>>

CppNext ==
    \/ cppInitStep
    \/ \E op \in CppOps, n \in Counts, options \in PhysicsOptions, nativeThrows \in BOOLEAN :
          cppCall(op, n, options, nativeThrows)
    \/ \E i \in 1 .. MaxCppCalls, nativeThrows \in BOOLEAN : cppResume(i, nativeThrows)
    \/ \E i \in 1 .. MaxCppCalls : cppFallback(i)

\* ---------------------------------------------------------------- system
\* The state when the constructor returns: start() has run up to its await.
InitPool(b, queueOption, jsThreads) ==
    /\ running = TRUE
    /\ workers = <<>>
    /\ jsThreadCount \in {determineThreadCount(r) : r \in jsThreads}
    /\ maxQueueSize = queueSizeOption(queueOption)
    /\ taskQueue = {}
    /\ timers = {}
    /\ nextTaskId = 0
    /\ promise = [t \in TaskIds |-> PendingPromise]
    /\ payload = [t \in TaskIds |-> NoPayload]
    /\ posted = [t \in TaskIds |-> NoWorker]
    /\ msgs = {}
    /\ wstate = [w \in Wids |-> "unborn"]
    /\ wslot = [w \in Wids |-> 0]
    /\ respawn = [s \in Slots |-> 0]
    /\ frames = <<[op |-> "start", waits |-> {}]>>
    /\ budget = b
    /\ faults = 0
    /\ batch = NoBatch
    /\ nativeCalls = <<>>
    /\ MathInit

\* a pool whose require() of the native module failed
InitFor(b, queueOption, jsThreads) ==
    InitPool(b, queueOption, jsThreads) /\ cppModule = "absent" /\ CppIdle /\ PointIdle

InitWith(b, queueOption) == InitFor(b, queueOption, RequestedThreads)

Init == InitWith(TaskBudget, MaxQueueSize)

Next ==
    \/ start
    \/ startContinue
    \/ shutdown
    \/ shutdownContinue
    \/ \E fn \in Fns : \E postThrows \in BOOLEAN : scheduleTask([fn |-> fn, arg |-> nextTaskId], postThrows)
    \/ \E t \in TaskIds : timeoutFires(t)
    \/ workerMessage
    \/ \E w \in Wids : \E t \in TaskIds : workerRun(w, t)
    \/ \E w \in Wids : workerError(w)
    \/ \E w \in Wids : workerExit(w)
    \/ \E id \in Slots : \E ok \in BOOLEAN : respawnFires(id, ok)

Spec == Init /\ [][Next]_vars

\* ================================================================ properties
\* a call of scheduleTask with some function
scheduleTaskCall ==
    \E fn \in Fns : \E postThrows \in BOOLEAN :
        scheduleTask([fn |-> fn, arg |-> nextTaskId], postThrows)

sent(t) == {m \in msgs : m.id = t}
suspended(op) == \E i \in 1 .. Len(frames) : frames[i].op = op /\ ~resumable(frames[i])

\* C1: resolve or reject is called at most once for every task id, whatever
\* the order of result messages (repeated and late ones included), timeouts
\* and shutdown.
C1_SettledAtMostOnce == \A t \in TaskIds : promise[t].calls <= 1

\* a task rejected by shutdown whose result message is still to be delivered
C1_Witness ==
    \E t \in TaskIds :
        /\ promise[t].kind = ErrShutdown
        /\ promise[t].calls = 1
        /\ sent(t) # {}

\* C2: a promise is settled by a result message only when the message
\* carries its own id, and then with the result or the error of that
\* message, which is what the task's own function produced.
C2_OwnResult ==
    \A t \in TaskIds :
        /\ promise[t].state = "resolved" =>
              /\ payload[t].fn = "return" /\ promise[t].value = payload[t].arg
              /\ \E m \in sent(t) : m.error = Undefined /\ m.result = promise[t].value
        /\ promise[t].kind = TaskError =>
              /\ payload[t].fn = "throw" /\ promise[t].value = payload[t].arg
              /\ \E m \in sent(t) : m.error = promise[t].value

C2_OnlyOwnMessage ==
    promise' # promise =>
        \A m \in Deliverable : handleWorkerMessage(m) =>
            \A t \in TaskIds : t # m.id => promise'[t] = promise[t]

C2_NoCrossDelivery == []C2_OwnResult /\ [][C2_OnlyOwnMessage]_vars

\* two tasks pending together, the later one settled first by its message
\* while the message of the earlier one is in flight
C2_Witness ==
    \E t, u \in TaskIds :
        /\ t < u
        /\ t \in taskQueue /\ sent(t) # {}
        /\ promise[u].state = "resolved"
        /\ payload[t].fn = "throw"

\* C3: a timeout that fires for a registered task removes the entry and
\* rejects the promise with the timeout error; handling a message for a task
\* that timed out changes nothing.
C3_TimeoutRejects ==
    \A t \in taskQueue : timeoutFires(t) =>
        /\ t \notin taskQueue'
        /\ promise'[t].state = "rejected"
        /\ promise'[t].kind = ErrTimeout

C3_LateMessageDropped ==
    \A m \in msgs : promise[m.id].kind = ErrTimeout /\ handleWorkerMessage(m) =>
        UNCHANGED vars

C4_ShutdownStep ==
    running /\ shutdown =>
        /\ \A t \in taskQueue :
              promise'[t].state = "rejected" /\ promise'[t].kind = ErrShutdown
        /\ timers' \cap taskQueue = {}
        /\ taskQueue' = {}
        /\ ~running'
        /\ Len(frames') = Len(frames) + 1
        /\ frames'[Len(frames')] = [op |-> "shutdown", waits |-> Range(workers)]
        /\ \A w \in Range(workers) : wstate'[w] # "exited"

C4_ShutdownRejectsAll == [][C4_ShutdownStep]_vars

\* two tasks rejected by a shutdown() that still awaits its workers
C4_Witness ==
    /\ ~running
    /\ suspended("shutdown")
    /\ \E t, u \in TaskIds : t # u /\ promise[t].kind = ErrShutdown /\ promise[u].kind = ErrShutdown

\* C5: while the running flag is false a scheduleTask call is rejected with
\* the not-running error and changes nothing of the pool.
C5_NotRunningResult == ~running => \A pt \in BOOLEAN : scheduleResult(pt) = ErrNotRunning

C5_NotRunningStep ==
    ~running /\ scheduleTaskCall =>
        UNCHANGED <<taskQueue, nextTaskId, timers, workers, wstate, promise, posted, payload>>

C5_FailFast == []C5_NotRunningResult /\ [][C5_NotRunningStep]_vars

\* the pool is stopped, its shutdown() still awaits a worker, and a call made
\* now is rejected
C5_Witness ==
    /\ ~running
    /\ suspended("shutdown")
    /\ nextTaskId > 0
    /\ scheduleResult(FALSE) = ErrNotRunning

\* C6: the registry never holds more than maxQueueSize entries; a call made
\* while it holds maxQueueSize entries is rejected with the queue-full error
\* and adds no entry.
C6_Bounded == Cardinality(taskQueue) <= maxQueueSize

C6_FullResult ==
    Cardinality(taskQueue) = maxQueueSize =>
        \A pt \in BOOLEAN : scheduleResult(pt) = ErrQueueFull

C6_FullStep ==
    Cardinality(taskQueue) = maxQueueSize /\ scheduleTaskCall =>
        UNCHANGED <<taskQueue, nextTaskId, timers, promise>>

C6_QueueBound == [](C6_Bounded /\ C6_FullResult) /\ [][C6_FullStep]_vars

\* the registry is full while task ids are still available
C6_Witness ==
    /\ Cardinality(taskQueue) = maxQueueSize
    /\ nextTaskId < budget.tasks
    /\ scheduleResult(FALSE) = ErrQueueFull

\* C7: the id counter never decreases and every id in use lies below it, so
\* no id is allocated twice, restarts included; every result message was
\* posted by the worker its task was sent to, so a message of a worker from
\* before a restart never carries the id of a task submitted after it.
C7_Monotonic ==
    /\ nextTaskId' >= nextTaskId
    /\ \A t \in TaskIds : t < nextTaskId => payload'[t] = payload[t] /\ posted'[t] = posted[t]
    /\ taskQueue' \ taskQueue \subseteq {nextTaskId}
    /\ taskQueue' \ taskQueue # {} => nextTaskId' = nextTaskId + 1

C7_Fresh ==
    \A t \in TaskIds : t >= nextTaskId =>
        /\ t \notin taskQueue /\ t \notin timers
        /\ promise[t] = PendingPromise
        /\ posted[t] = NoWorker
        /\ sent(t) = {}

C7_NoStaleMatch == \A m \in msgs : m.from = posted[m.id]

C7_UniqueIds == [](C7_Fresh /\ C7_NoStaleMatch) /\ [][C7_Monotonic]_vars

\* after a shutdown and a restart, the result message of a terminated worker
\* is in flight while a later task waits on a worker of the new set
C7_Witness ==
    \E m \in msgs : \E u \in taskQueue :
        /\ wstate[m.from] \in {"terminating", "exited"}
        /\ promise[m.id].kind = ErrShutdown
        /\ m.id < u
        /\ wstate[posted[u]] = "alive"
        /\ running

\* C8: every registered task is eventually settled when armed timers
\* eventually fire, whether or not its worker answers.
C8_EventuallySettled ==
    \A t \in TaskIds : (t \in taskQueue) ~> (promise[t].state # "pending")

\* a task settled by its timeout, its worker never having answered
C8_Witness ==
    \E t \in TaskIds :
        /\ promise[t].kind = ErrTimeout
        /\ posted[t] # NoWorker
        /\ sent(t) = {}

\* C9: start() on a pool whose shutdown() has completed sets the running
\* flag and suspends on initializeWorkers; when it resumes and worker
\* creation succeeds, the workers are new Worker objects and a scheduleTask
\* call is neither rejected as not running nor for want of workers.
C9_StartStep ==
    ~running /\ ~suspended("shutdown") /\ start =>
        /\ running'
        /\ Len(frames') = Len(frames) + 1
        /\ frames'[Len(frames')].op = "start"

C9_StartedStep ==
    \A i \in 1 .. Len(frames) :
        running /\ frames[i].op = "start" /\ resumable(frames[i]) =>
            \A ok \in SUBSET Slots : ok # {} /\ startContinueWith(i, ok) =>
                /\ Len(workers') >= Cardinality(ok)
                /\ \E w \in Range(workers') : wstate[w] = "unborn" /\ wstate'[w] = "alive"
                /\ \A pt \in BOOLEAN : scheduleResult(pt)' \notin {ErrNotRunning, ErrNoWorkers}

C10_Step == ~running /\ shutdown => UNCHANGED vars

C10_ShutdownIdempotent == [][C10_Step]_vars

\* a first shutdown() rejected a task and still awaits its workers
C10_Witness ==
    /\ ~isRunning
    /\ suspended("shutdown")
    /\ \E t \in TaskIds : promise[t].kind = ErrShutdown /\ promise[t].calls = 1

\* C11: a worker that runs a throwing function posts an error message under
\* the task's id and stays as it is; handling that message rejects the task's
\* promise with the error and changes no other promise, no worker and not the
\* running flag.
C11_WorkerReports ==
    \A w \in Wids : \A t \in TaskIds :
        payload[t].fn = "throw" /\ workerRun(w, t) =>
            /\ \E m \in msgs' \ msgs : m.id = t /\ m.error = payload[t].arg /\ m.error # Undefined
            /\ wstate' = wstate /\ workers' = workers

C11_OnlyThatTask ==
    promise' # promise =>
        \A m \in msgs : m.error # Undefined /\ handleWorkerMessage(m) =>
            /\ promise'[m.id].state = "rejected"
            /\ promise'[m.id].kind = TaskError
            /\ promise'[m.id].value = m.error
            /\ \A t \in TaskIds : t # m.id => promise'[t] = promise[t]
            /\ UNCHANGED <<running, workers, wstate, respawn>>

C11_TaskErrorContained == [][C11_WorkerReports /\ C11_OnlyThatTask]_vars

\* a task was rejected with the error its function threw, no fault occurred,
\* and a later task sent to the same, still live worker has resolved
C11_Witness ==
    \E t, u \in TaskIds :
        /\ t < u
        /\ promise[t].kind = TaskError
        /\ promise[u].state = "resolved"
        /\ posted[u] = posted[t]
        /\ wstate[posted[t]] = "alive"
        /\ faults = 0

\* C12 (as amended): a scheduleTask call on a running pool with an empty worker
\* list and a registry that is not full is rejected with 'No workers
\* available' before it returns, and leaves no entry and no timer; with a full
\* registry the call is rejected with 'Task queue is full'.
C12_NoWorkersResult ==
    running /\ Len(workers) = 0 =>
        \A pt \in BOOLEAN :
            scheduleResult(pt) =
                IF Cardinality(taskQueue) < maxQueueSize THEN ErrNoWorkers ELSE ErrQueueFull

C12_NoWorkersStep ==
    running /\ Len(workers) = 0 /\ Cardinality(taskQueue) < maxQueueSize /\ scheduleTaskCall =>
        /\ promise'[nextTaskId].state = "rejected"
        /\ promise'[nextTaskId].kind = ErrNoWorkers
        /\ taskQueue' = taskQueue
        /\ timers' = timers
        /\ nextTaskId \notin timers'

C12_NoWorkers == []C12_NoWorkersResult /\ [][C12_NoWorkersStep]_vars

\* a call was rejected for want of workers and left nothing behind
C12_Witness ==
    \E t \in TaskIds :
        /\ promise[t].kind = ErrNoWorkers
        /\ promise[t].calls = 1
        /\ t \notin taskQueue /\ t \notin timers

\* C12 as stated: on a running pool without workers every call is rejected
\* with 'No workers available'.
C12_AlwaysNoWorkers ==
    running /\ Len(workers) = 0 => \A pt \in BOOLEAN : scheduleResult(pt) = ErrNoWorkers

\* C13, the case where the respawn succeeds: one worker failed, a task was
\* meanwhile posted to a worker that stayed, and a new worker has taken the
\* slot of the failed one
C13_Witness ==
    \E w, v, u \in Wids : \E t \in TaskIds :
        /\ running /\ faults = 1
        /\ wstate[w] = "exited"
        /\ w < v /\ wstate[v] = "alive" /\ wslot[v] = wslot[w] /\ v \in Range(workers)
        /\ u < v /\ u # w /\ wstate[u] = "alive" /\ posted[t] = u

\* C13: while the pool stays running, a worker that crashed is eventually
\* replaced by a new worker for its slot (a worker id is still free for it).
C13_EventuallyReplaced ==
    \A w \in Wids :
        (running /\ wstate[w] = "errored" /\ nextWid + reserved <= budget.workers)
            ~> (~running \/ \E v \in Wids : v > w /\ wstate[v] # "unborn" /\ wslot[v] = wslot[w])

\* C15: when initializeWorkers resumes, a worker is created for every slot
\* whose `new Worker` does not throw, whichever other slots fail; the pool
\* stays running and start() returns.
C15_StartStep ==
    \A i \in 1 .. Len(frames) :
        frames[i].op = "start" /\ resumable(frames[i]) =>
            \A ok \in SUBSET Slots : startContinueWith(i, ok) =>
                /\ Len(workers') = Len(workers) + Cardinality(ok)
                /\ \A s \in ok : \E v \in Range(workers') :
                      wstate[v] = "unborn" /\ wstate'[v] = "alive" /\ wslot'[v] = s
                /\ running' = running
                /\ Len(frames') = Len(frames) - 1

C15_CreationIndependent == [][C15_StartStep]_vars

\* the worker of slot 0 could not be created at startup, the worker of slot 1
\* was created after it, and the pool runs with one worker of two
C15_Witness ==
    /\ running /\ frames = <<>>
    /\ jsThreadCount >= 2
    /\ faults = 1
    /\ Len(workers) = jsThreadCount - 1
    /\ \A w \in Wids : wstate[w] \in {"unborn", "alive"}
    /\ \A w \in Range(workers) : wslot[w] >= 1

\* C14 as stated: once the constructor has returned, and as long as the pool
\* was not shut down and no worker failed, getWorkerCount() is at least 1.
C14_WorkerCountAtLeastOne ==
    (running /\ faults = 0 /\ \A w \in Wids : wstate[w] \in {"unborn", "alive"})
        => getWorkerCount >= 1


\* calls of the batch operations with arrays of n and m points
bezierCall(n, m) ==
    \E seedOpt \in SeedOptions : \E random \in RandomSeeds : \E nativeThrows \in BOOLEAN :
        \E throwsAt \in SUBSET (1 .. MaxPairs) :
            generateBezierPaths(n, m, seedOpt, random, nativeThrows, throwsAt)

physicsCall(n, m) ==
    \E seedOpt \in SeedOptions : \E random \in RandomSeeds : \E nativeThrows \in BOOLEAN :
        simulatePhysicsMovements(n, m, seedOpt, random, nativeThrows)

\* the step submits no task and touches neither the registry nor the workers
poolUntouched ==
    UNCHANGED <<nextTaskId, taskQueue, timers, promise, posted, payload, workers, wstate>>

\* the chunk's task was answered by its worker and the answer was handled
\* while the task was registered
completed(c) ==
    /\ c.id # Undefined
    /\ promise[c.id].kind \in {"value", TaskError}
    /\ sent(c.id) # {}

\* C16: a generateBezierPaths call that went to the worker pool, all of
\* whose chunk tasks were answered by their workers without any fault,
\* returns exactly N paths, the i-th for the i-th pair.
C16_OrderedPaths ==
    ( /\ batch.op = "bezier" /\ batch.path = "workers"
      /\ batch.state \in {"resolved", "rejected"}
      /\ faults = 0
      /\ \A k \in 1 .. Len(batch.chunks) : completed(batch.chunks[k]) )
    => batch.state = "resolved" /\ batch.result = points(batch.n)

\* C17: a batch call some chunk task of which is rejected is rejected with
\* the failure of a rejected chunk (the first rejection, when its await
\* resumes), and a call that returned paths had every chunk task resolved.
C17_NoPartialResult ==
    batch.path = "workers" =>
        /\ batch.state = "resolved" =>
              \A k \in 1 .. Len(batch.chunks) : chunkPromise(batch.chunks[k]).state = "resolved"
        /\ batch.state = "rejected" =>
              \E k \in rejectedChunks(batch) :
                  /\ batch.kind = chunkPromise(batch.chunks[k]).kind
                  /\ batch.value = chunkPromise(batch.chunks[k]).value
        /\ rejectedChunks(batch) # {} => batch.state = "rejected" \/ batchReady

C17_RejectsWithFailure ==
    batchContinue /\ rejectedChunks(batch) # {} =>
        /\ batch'.state = "rejected"
        /\ batch'.kind = chunkPromise(batch.chunks[firstRejected(batch)]).kind
        /\ batch'.result = <<>>

C17_ChunkFailurePropagates == []C17_NoPartialResult /\ [][C17_RejectsWithFailure]_vars

\* of two chunk tasks the second was answered first, with an error: the call
\* is rejected with it while the first chunk is still registered
C17_Witness ==
    /\ Len(batch.chunks) = 2
    /\ batch.state = "rejected" /\ batch.kind = TaskError
    /\ batch.chunks[1].id \in taskQueue
    /\ promise[batch.chunks[2].id].kind = TaskError
    /\ batch.value = promise[batch.chunks[2].id].value

\* C18: a batch operation called with empty arrays returns [] without a
\* call of the native primitive and without a task, in every state of the
\* pool.
C18_EmptyStep ==
    bezierCall(0, 0) \/ physicsCall(0, 0) =>
        /\ batch'.state = "resolved" /\ batch'.result = <<>>
        /\ nativeCalls' = nativeCalls
        /\ poolUntouched

C18_EmptyReturnsEmpty == [][C18_EmptyStep]_vars

\* C19: a batch operation called with arrays of different lengths is
\* rejected with an error; the native primitive is not called, no task is
\* submitted, and the id counter, the registry and the workers stay as they
\* were.
C19_MismatchStep ==
    \A n, m \in 0 .. MaxPairs :
        n # m /\ (bezierCall(n, m) \/ physicsCall(n, m)) =>
            /\ batch'.state = "rejected"
            /\ batch'.kind \in {ErrLength, ErrNotRunning}
            /\ running => batch'.kind = ErrLength
            /\ nativeCalls' = nativeCalls
            /\ poolUntouched

C19_LengthMismatchFails == [][C19_MismatchStep]_vars

\* a call with arrays of different lengths was rejected on a pool that has
\* the native primitive and two workers: no primitive call, no task id
C19_Witness ==
    /\ batch.state = "rejected" /\ batch.kind = ErrLength
    /\ hasBatchPrimitive /\ Len(workers) = 2
    /\ nativeCalls = <<>>
    /\ nextTaskId = 0 /\ taskQueue = {}

\* C20 (as amended): on a running pool whose native module has the batch
\* primitive, a batch call with n = m > 0 points calls the primitive exactly
\* once, with the full arrays and the resolved seed (options.seed when
\* given, 0 included); when the primitive returns, its result is the
\* call's and no task is submitted; when it throws, the fallback runs.
C20_NativeStep ==
    \A n \in 1 .. MaxPairs : \A seedOpt \in SeedOptions : \A random \in RandomSeeds :
        \A nativeThrows \in BOOLEAN : \A op \in {"bezier", "physics"} :
            ( /\ running /\ hasBatchPrimitive
              /\ IF op = "bezier"
                 THEN \E throwsAt \in SUBSET (1 .. MaxPairs) :
                        generateBezierPaths(n, n, seedOpt, random, nativeThrows, throwsAt)
                 ELSE simulatePhysicsMovements(n, n, seedOpt, random, nativeThrows) )
            => /\ Len(nativeCalls') = Len(nativeCalls) + 1
               /\ LET c == nativeCalls'[Len(nativeCalls')] IN
                    /\ c.op = op
                    /\ c.startPoints = points(n) /\ c.endPoints = points(n)
                    /\ c.seed = IF seedOpt = Undefined THEN random ELSE seedOpt
               /\ ~nativeThrows =>
                    /\ batch'.state = "resolved" /\ batch'.path = "native"
                    /\ poolUntouched
               /\ nativeThrows => batch'.path \in {"workers", "linear"}

C20_NativeOnce == [][C20_NativeStep]_vars

\* the primitive was called once, with seed 0 as given, and returned: the
\* call is resolved and no task id was allocated
C20_Witness ==
    /\ Len(nativeCalls) = 1 /\ nativeCalls[1].seed = 0
    /\ nativeCalls[1].startPoints = points(MaxPairs)
    /\ batch.state = "resolved" /\ batch.path = "native"
    /\ nextTaskId = 0 /\ taskQueue = {}

\* C20 as stated: with the batch primitive present, a batch call (of a
\* running pool, with n = m > 0) calls it once and submits no task.
C20_NoTaskStep ==
    \A n \in 1 .. MaxPairs :
        running /\ hasBatchPrimitive /\ (bezierCall(n, n) \/ physicsCall(n, n)) =>
            /\ Len(nativeCalls') = Len(nativeCalls) + 1
            /\ nextTaskId' = nextTaskId /\ taskQueue' = taskQueue

C20_NeverTasks == [][C20_NoTaskStep]_vars

\* C29: the pool never holds more live workers than its configured worker
\* count.
C29_AtMostConfigured == Cardinality(liveWorkers) <= jsThreadCount

\* C30: once shutdown() has returned and until start() is called, the pool
\* holds no worker and no worker is alive.
C30_NoWorkersWhileStopped ==
    (~running /\ \A i \in 1 .. Len(frames) : frames[i].op # "shutdown")
        => Len(workers) = 0 /\ \A w \in Wids : wstate[w] # "alive"

\* C21: a batch call whose native primitive throws is not rejected with the
\* primitive's error. generateBezierPaths goes on to submit one chunk task
\* per batch and awaits them; simulatePhysicsMovements returns the linear
\* paths; a call is never rejected with the primitive's error.
C21_FallbackStep ==
    \A n \in 1 .. MaxPairs : \A seedOpt \in SeedOptions : \A random \in RandomSeeds :
        /\ (\E throwsAt \in SUBSET (1 .. MaxPairs) :
                generateBezierPaths(n, n, seedOpt, random, TRUE, throwsAt))
           => /\ batch'.state = "pending" /\ batch'.path = "workers"
              /\ Len(batch'.chunks) = Len(batches(n))
              /\ \A k \in 1 .. Len(batches(n)) :
                    /\ batch'.chunks[k].first = batches(n)[k].first
                    /\ batch'.chunks[k].last = batches(n)[k].last
        /\ simulatePhysicsMovements(n, n, seedOpt, random, TRUE)
           => /\ batch'.state = "resolved" /\ batch'.path = "linear"
              /\ batch'.result = points(n)

C21_NativeErrorHidden == batch.kind # ErrNative

C21_NativeFailureFallsBack == []C21_NativeErrorHidden /\ [][C21_FallbackStep]_vars

\* the primitive threw for a call with two pairs on a pool of two workers:
\* two chunk tasks were submitted and the call was rejected with the
\* failure of a chunk task
C21_Witness ==
    /\ batch.op = "bezier" /\ batch.path = "workers"
    /\ Len(nativeCalls) = 1
    /\ Len(batch.chunks) = 2
    /\ batch.state = "rejected" /\ batch.kind = TaskError

\* ================================================================ further specifications
\* the same pool, explored with Worker objects for a restart
RestartSpec == InitWith(RestartBudget, MaxQueueSize) /\ [][Next]_vars

\* explored with Worker objects for a restart and task ids on both sides of it
IdSpec == InitWith(IdBudget, MaxQueueSize) /\ [][Next]_vars

\* a pool configured with a queue of one entry
QueueSpec == InitWith(QueueBudget, SmallQueueSize) /\ [][Next]_vars

\* Armed timers fire, and a continuation that can resume does resume.
Fairness ==
    /\ \A t \in TaskIds : WF_vars(timeoutFires(t))
    /\ WF_vars(startContinue)
    /\ WF_vars(shutdownContinue)

\* a pool of several workers
WideSpec == InitFor(WideBudget, MaxQueueSize, WideThreads) /\ [][Next]_vars

\* a pool of one worker whose Worker objects can be replaced twice
CrashSpec == InitFor(CrashBudget, MaxQueueSize, RequestedThreads) /\ [][Next]_vars

\* batch operations on a pool of several workers, with and without the
\* native module
BatchInit ==
    /\ \E queueOption \in {SmallQueueSize, MaxQueueSize} :
          InitPool(BatchBudget, queueOption, WideThreads)
    /\ cppModule \in CppModules
    /\ CppIdle
    /\ PointIdle

batchCall ==
    \E n, m \in 0 .. MaxPairs : \E seedOpt \in SeedOptions : \E random \in RandomSeeds :
        \E nativeThrows \in BOOLEAN :
            \/ \E throwsAt \in SUBSET (1 .. MaxPairs) :
                  generateBezierPaths(n, m, seedOpt, random, nativeThrows, throwsAt)
            \/ simulatePhysicsMovements(n, m, seedOpt, random, nativeThrows)

\* The caller of BatchSpec submits its tasks through the batch operations.
BatchNext ==
    \/ start
    \/ startContinue
    \/ shutdown
    \/ shutdownContinue
    \/ batchCall
    \/ batchContinue
    \/ \E t \in TaskIds : timeoutFires(t)
    \/ workerMessage
    \/ \E w \in Wids : \E t \in TaskIds : workerRun(w, t)
    \/ \E w \in Wids : workerError(w)
    \/ \E w \in Wids : workerExit(w)
    \/ \E id \in Slots : \E ok \in BOOLEAN : respawnFires(id, ok)

BatchSpec == BatchInit /\ [][BatchNext]_vars

\* Armed respawn timers fire too.
RespawnFairness ==
    \A id \in Slots : WF_vars(\E ok \in BOOLEAN : respawnFires(id, ok))

WideLiveSpec == WideSpec /\ Fairness /\ RespawnFairness

\* a pool that is given one task
SoloSpec == InitWith(SoloBudget, MaxQueueSize) /\ [][Next]_vars

LiveSpec == SoloSpec /\ Fairness

\* the factory alone, next to a pool that nobody uses
FactorySpec == Init /\ [][FactoryNext]_vars

BenchSpec == Init /\ [][BenchNext]_vars

OverlapSpec == Init /\ [][OverlapNext]_vars

\* ================================================================ factory properties
\* a step in which a caller arrives
arrival == Len(calls') = Len(calls) + 1
arrived == calls'[Len(calls')]

\* C22, first part: at most one run of initializeModules() is in flight or
\* has succeeded, however many calls were made.
C22_OneRun ==
    \A r1, r2 \in 1 .. Len(runs) :
        runs[r1].state # "rejected" /\ runs[r2].state # "rejected" => r1 = r2

\* C22, second part: a caller arriving while an initialization is in flight
\* awaits that initialization's promise, and a caller arriving after a
\* successful initialization does not wait at all; neither starts a run.
C22_ArrivalStep ==
    arrival =>
        /\ isInitializing /\ ~isInitialized =>
              /\ arrived.phase = "join"
              /\ arrived.run = initializationPromise
              /\ runs[arrived.run].state = "pending" \/ ~runs[arrived.run].awaited
              /\ runs' = runs
        /\ isInitialized => arrived.run = 0 /\ runs' = runs

\* C22, third part: a call that has returned sees the registry as a
\* finished, successful run left it.
C22_Populated ==
    \A i \in 1 .. Len(calls) :
        calls[i].state = "resolved" =>
            /\ isInitialized
            /\ \E r \in 1 .. Len(runs) : runs[r].state = "resolved"
            /\ has(TYPESCRIPT) /\ has(activeType)

\* C22: initialization is single-flight: one run serves every concurrent and
\* later caller, and each returned call sees the populated registry.
C22_SingleFlight == []C22_OneRun /\ []C22_Populated /\ [][C22_ArrivalStep]_vars

\* the import's run served a getModule that arrived while it was in flight
\* and a caller that arrived after it
C22_Witness ==
    /\ Len(runs) = 1 /\ Len(calls) = 3
    /\ calls[2].op = "getModule" /\ calls[2].run = 1 /\ calls[2].state = "resolved"
    /\ calls[3].op = "benchmarkAndSelectBest" /\ calls[3].run = 0
    /\ calls[3].state = "resolved"

\* the backends other than the reference one
optional == Kinds \ {TYPESCRIPT}

\* C23, first part: once an initialization has completed, the TypeScript
\* backend is registered.
C23_ReferencePresent ==
    (isInitialized \/ \E r \in 1 .. Len(runs) : runs[r].state = "resolved")
        => has(TYPESCRIPT)

\* C23, second part: a registered backend is never removed or replaced once
\* initialization has completed.
C23_StaysStep ==
    isInitialized => isInitialized' /\ instances' = instances

\* C23, third part: a step of initializeModules() at an optional backend
\* never rejects the run and touches no other kind's entry.
C23_OptionalStep ==
    \A r \in 1 .. Len(runs) :
        runs[r].at \in optional /\ runs'[r] # runs[r] =>
            /\ runs'[r].state = "pending"
            /\ \A k \in Kinds \ {runs[r].at} : instances'[k] = instances[k]

\* C23: the TypeScript backend is registered from the completion of
\* initialize() on, and a failing optional backend is only left out.
C23_ReferenceAlways ==
    []C23_ReferencePresent /\ [][C23_StaysStep]_vars /\ [][C23_OptionalStep]_vars

\* initialize() resolved although no optional backend was registered
C23_Witness ==
    /\ calls[1].op = "initialize" /\ calls[1].state = "resolved"
    /\ runs[1].state = "resolved"
    /\ has(TYPESCRIPT) /\ \A k \in optional : ~has(k)
    /\ Len(calls) = 4

\* the calls of getModule() that have returned
returnedModules ==
    {i \in 1 .. Len(calls) : calls[i].op = "getModule" /\ calls[i].state = "resolved"}

\* a step in which the i-th call, a getModule(), returns
getModuleReturns(i) ==
    /\ i \in 1 .. Len(calls')
    /\ calls'[i].op = "getModule" /\ calls'[i].state = "resolved"
    /\ i \in 1 .. Len(calls) => calls[i].state = "pending"

\* C24, first part: getModule(kind) returns kind's registered instance, or
\* the active kind's instance when kind is not registered.
C24_ReturnStep ==
    \A i \in 1 .. MaxCalls + 1 :
        getModuleReturns(i) =>
            calls'[i].value = IF has(calls'[i].type) THEN instances[calls'[i].type]
                              ELSE instances[activeType]

\* C24, second part: what getModule() returned is a module, and for a
\* registered kind it is that kind's one registered instance, whenever asked.
C24_Cached ==
    \A i \in returnedModules :
        /\ calls[i].value # NoInstance
        /\ calls[i].value \in {instances[k] : k \in Kinds}
        /\ has(calls[i].type) => calls[i].value = instances[calls[i].type]

\* C24 (amended): getModule(kind) never returns undefined; for a registered
\* kind every call returns the same cached instance; for an unregistered
\* kind it returns the instance of the kind active at that call.
C24_GetModule == []C24_Cached /\ [][C24_ReturnStep]_vars

\* C24 (as stated): any two calls of getModule() for the same kind return
\* the same instance.
C24_SameInstance ==
    \A i, j \in returnedModules :
        calls[i].type = calls[j].type => calls[i].value = calls[j].value

\* getModule() answered for a registered kind and, by the fallback, for an
\* unregistered one
C24_Witness ==
    /\ isInitialized /\ has(CPP) /\ activeType = TYPESCRIPT
    /\ \E i, j \in returnedModules :
          /\ calls[i].type = CPP /\ calls[i].value = instances[CPP]
          /\ calls[j].type = PYTHON /\ calls[j].value = instances[TYPESCRIPT]

\* a step in which the i-th call, of method op, returns
returns(i, op) ==
    /\ i \in 1 .. Len(calls')
    /\ calls'[i].op = op /\ calls'[i].state = "resolved"
    /\ i \in 1 .. Len(calls) => calls[i].state = "pending"

\* C25: setActiveType(kind) returns false and leaves the active kind alone
\* when kind is not registered; it returns true and getCurrentType() is kind
\* from then on when kind is registered.
C25_SetActiveStep ==
    \A i \in 1 .. MaxCalls + 1 :
        returns(i, "setActiveType") =>
            IF has(calls'[i].type)
            THEN calls'[i].value = TRUE /\ getCurrentType' = calls'[i].type
            ELSE calls'[i].value = FALSE /\ getCurrentType' = getCurrentType

C25_SetActiveType == [][C25_SetActiveStep]_vars

\* one setActiveType() was refused and another switched away from C++
C25_Witness ==
    /\ has(CPP) /\ getCurrentType = TYPESCRIPT
    /\ \E i, j \in 1 .. Len(calls) :
          /\ calls[i].op = "setActiveType" /\ calls[i].type = PYTHON
          /\ calls[i].state = "resolved" /\ calls[i].value = FALSE
          /\ calls[j].op = "setActiveType" /\ calls[j].type = TYPESCRIPT
          /\ calls[j].state = "resolved" /\ calls[j].value = TRUE

\* C26: with two or more backends registered, benchmarkAndSelectBest()
\* returns a registered kind whose accumulated weighted score is at least
\* that of every registered kind, and that kind is active when it returns.
C26_SelectStep ==
    \A i \in 1 .. BenchCalls + 1 :
        returns(i, "benchmarkAndSelectBest") /\ Len(registered) >= 2 =>
            LET best == calls'[i].value
                results == calls'[i].results
            IN
            /\ best \in Kinds /\ has(best)
            /\ \A k \in Kinds : has(k) => results[best] >= results[k]
            /\ activeType' = best

C26_SelectsBest == [][C26_SelectStep]_vars

\* a benchmark of TypeScript and C++ returned C++, which scored higher
\* although TypeScript was the active kind while it ran
C26_Witness ==
    \E i \in 1 .. Len(calls) :
        /\ calls[i].op = "benchmarkAndSelectBest" /\ calls[i].state = "resolved"
        /\ calls[i].availableTypes = <<TYPESCRIPT, CPP>>
        /\ calls[i].value = CPP /\ activeType = CPP
        /\ calls[i].results[CPP] > calls[i].results[TYPESCRIPT]
        /\ calls[i].results[TYPESCRIPT] > 0
        /\ \E j \in 1 .. Len(calls) :
              calls[j].op = "setActiveType" /\ calls[j].type = TYPESCRIPT
                 /\ calls[j].state = "resolved" /\ calls[j].value = TRUE

\* the i-th call has measured nothing
unmeasured(i) == calls[i].at = 0 /\ calls[i].results = NoResults

\* C27, first part: a benchmarkAndSelectBest() that finds only TypeScript
\* registered returns TYPESCRIPT, has measured nothing, and leaves
\* TYPESCRIPT active.
C27_ReturnStep ==
    \A i \in 1 .. BenchCalls + 1 :
        returns(i, "benchmarkAndSelectBest") /\ registered = <<TYPESCRIPT>> =>
            /\ calls'[i].value = TYPESCRIPT
            /\ unmeasured(i)'
            /\ activeType = TYPESCRIPT /\ activeType' = TYPESCRIPT

\* C27, second part: no call measures while TypeScript is the only
\* registered backend.
C27_NoMeasure ==
    \A i \in 1 .. Len(calls) :
        calls[i].phase = "measure" \/ ~unmeasured(i) => Len(registered) >= 2

\* C27: with only the reference backend registered the benchmark returns
\* TYPESCRIPT without running any benchmark operation.
C27_OnlyReference == []C27_NoMeasure /\ [][C27_ReturnStep]_vars

\* a benchmark returned at once because C++ was not registered
C27_Witness ==
    \E i \in 1 .. Len(calls) :
        /\ calls[i].op = "benchmarkAndSelectBest" /\ calls[i].state = "resolved"
        /\ calls[i].value = TYPESCRIPT /\ unmeasured(i)
        /\ registered = <<TYPESCRIPT>> /\ activeType = TYPESCRIPT

\* a CppMathModule in each environment, next to a pool and a factory that
\* nobody uses
CppInit ==
    /\ InitPool(SoloBudget, MaxQueueSize, RequestedThreads)
    /\ cppModule = "absent"
    /\ cppMath \in {NewModule(env) : env \in Environments}
    /\ cppCalls = <<>>
    /\ PointIdle

CppSpec == CppInit /\ [][CppNext]_vars

\* C28: every operation of CppMathModule resolves, whatever the module's
\* state and the arguments.
C28_NeverRejects ==
    \A i \in 1 .. Len(cppCalls) : cppCalls[i].state # "rejected"

\* generateBezierCurve with numPoints 0 on a module whose addon never loaded
\* returned the TypeScript result
C28_Witness ==
    /\ cppMath.env = "node" /\ cppMath.initAttempts = MAX_INIT_ATTEMPTS
    /\ \E i \in 1 .. Len(cppCalls) :
          /\ cppCalls[i].op = "generateBezierCurve" /\ cppCalls[i].n = 0
          /\ cppCalls[i].state = "resolved" /\ cppCalls[i].by = "typescript"
          /\ cppCalls[i].length = 0

\* ================================================================ timers and crashes
\* C31: the armed task timeouts are exactly the ids that have an entry in
\* the task queue.
C31_TimersMatchEntries == timers = taskQueue

\* one task was rejected by scheduleTask itself for want of workers, the
\* next is pending with its timer armed
C31_Witness ==
    /\ taskQueue = {1} /\ timers = {1}
    /\ promise[0].state = "rejected" /\ promise[0].kind = ErrNoWorkers

\* a step in which a worker crashes ('error') or exits
crashStep ==
    \E w \in Wids :
        /\ wstate[w] \in {"alive", "errored", "terminating"}
        /\ wstate'[w] \in {"errored", "exited"}
        /\ wstate'[w] # wstate[w]

\* task t is pending, was posted to a worker that has crashed or exited, and
\* that worker posted no result for it
orphaned(t) ==
    /\ t \in taskQueue
    /\ posted[t] # NoWorker
    /\ wstate[posted[t]] \in {"errored", "exited"}
    /\ \A m \in msgs : m.id # t

\* C32, first part: a crash or exit of a worker leaves the task queue, the
\* promises and the timers as they were.
C32_CrashStep == crashStep => UNCHANGED <<taskQueue, promise, timers>>

\* C32, second part: a task orphaned by a crash is settled only by its
\* timeout or by shutdown, as a rejection.
C32_OrphanStep ==
    \A t \in TaskIds :
        orphaned(t) /\ promise'[t] # promise[t] =>
            /\ promise'[t].state = "rejected"
            /\ promise'[t].kind \in {ErrTimeout, ErrShutdown}

\* C32: a worker's crash or exit settles nothing; the tasks it leaves behind
\* stay pending until their timeout or shutdown rejects them, which happens.
C32_CrashLeavesPending ==
    /\ [][C32_CrashStep]_vars
    /\ [][C32_OrphanStep]_vars
    /\ \A t \in TaskIds : orphaned(t) ~> (promise[t].state = "rejected")

\* the task posted to the worker that crashed was rejected by its timeout
C32_Witness ==
    /\ posted[0] # NoWorker /\ wstate[posted[0]] \in {"errored", "exited"}
    /\ \A m \in msgs : m.id # 0
    /\ promise[0].state = "rejected" /\ promise[0].kind = ErrTimeout

\* a message that handleWorkerMessage has no entry for, or that is no result
dropped(m) == m.type # "result" \/ m.id \notin taskQueue

\* C33: handling a message that is not a result, or whose id has no entry in
\* the task queue, changes nothing: no promise, entry, timer or worker.
C33_DropStep == \A m \in Deliverable : dropped(m) /\ handleWorkerMessage(m) => UNCHANGED vars

C33_DroppedMessages == [][C33_DropStep]_vars

\* the result of a task that timed out is still deliverable, next to the
\* workers' status and error reports; the task stays rejected by its timeout
C33_Witness ==
    \E m \in msgs :
        /\ m.type = "result" /\ m.id \notin taskQueue
        /\ promise[m.id].kind = ErrTimeout /\ promise[m.id].calls = 1
        /\ \E r \in Deliverable : r.type = "error"
        /\ \E r \in Deliverable : r.type = "status"

\* ================================================================ benchmark races
\* the benchmarkAndSelectBest() calls that are inside their measurement loops
measuring == {i \in 1 .. Len(calls) : calls[i].phase = "measure"}

\* C34: at most one benchmarkAndSelectBest() is measuring at any time.
C34_OneBenchmarkAtATime == Cardinality(measuring) <= 1

\* the order of preference of getBestAvailableType()
preferredTypes == <<CPP, FORTRAN, PYTHON, TYPESCRIPT>>

\* the registered kinds that share the highest score of a score table
topScorers(results) ==
    {k \in Kinds : has(k) /\ \A j \in Kinds : has(j) => results[k] >= results[j]}

\* the first kind of the order of preference among a set of kinds
mostPreferred(kinds) ==
    preferredTypes[CHOOSE n \in 1 .. Len(preferredTypes) :
                       /\ preferredTypes[n] \in kinds
                       /\ \A j \in 1 .. (n - 1) : preferredTypes[j] \notin kinds]

\* C35: when several registered kinds share the best score,
\* benchmarkAndSelectBest() returns the one that getBestAvailableType()
\* prefers: C++ before Fortran before Python before TypeScript.
C35_TieStep ==
    \A i \in 1 .. BenchCalls + 1 :
        returns(i, "benchmarkAndSelectBest") /\ Len(registered) >= 2 =>
            calls'[i].value = mostPreferred(topScorers(calls'[i].results))

C35_TieByPreference == [][C35_TieStep]_vars

\* TypeScript and C++ finished the benchmark with equal scores
C35_Witness ==
    \E i \in 1 .. Len(calls) :
        /\ calls[i].op = "benchmarkAndSelectBest" /\ calls[i].state = "resolved"
        /\ calls[i].availableTypes = <<TYPESCRIPT, CPP>>
        /\ calls[i].results[CPP] = calls[i].results[TYPESCRIPT]
        /\ calls[i].value = TYPESCRIPT

\* ================================================================ chunking
\* ceil(n / w)
ceilDiv(n, w) == (n + w - 1) \div w

\* cs are contiguous slices of 1 .. n, in order, each of `size` positions
\* but the last, which has between 1 and `size`
slicesOf(cs, n, size) ==
    /\ Len(cs) >= 1
    /\ cs[1].first = 1
    /\ cs[Len(cs)].last = n
    /\ \A k \in 1 .. (Len(cs) - 1) :
          cs[k + 1].first = cs[k].last + 1 /\ cs[k].last - cs[k].first + 1 = size
    /\ cs[Len(cs)].last >= cs[Len(cs)].first
    /\ cs[Len(cs)].last - cs[Len(cs)].first + 1 <= size

\* C36, as arithmetic: for N >= 1 points and W >= 1 workers the batches are
\* contiguous slices of size ceil(N/W) covering every point once, at most W.
C36_Slices ==
    \A n \in 1 .. MaxChunked, w \in 1 .. MaxChunkWorkers :
        /\ slicesOf(batchesFor(n, w), n, ceilDiv(n, w))
        /\ Len(batchesFor(n, w)) <= w
        /\ flat(batchesFor(n, w)) = [p \in 1 .. n |-> p]

\* C36, in the pool: a generateBezierPaths call that goes to the workers
\* calls scheduleTask once per such slice, in order.
C36_SubmitStep ==
    batch.state = "idle" /\ batch'.state = "pending" /\ batch'.path = "workers"
        /\ Len(workers) >= 1 =>
            /\ slicesOf(batch'.chunks, batch'.n, ceilDiv(batch'.n, Len(workers)))
            /\ Len(batch'.chunks) <= Len(workers)
            /\ \A k \in 1 .. Len(batch'.chunks) :
                  batch'.chunks[k].id # Undefined =>
                      /\ batch'.chunks[k].id \notin taskQueue
                      /\ nextTaskId <= batch'.chunks[k].id
                      /\ batch'.chunks[k].id < nextTaskId'
            /\ nextTaskId' - nextTaskId =
                  Cardinality({k \in 1 .. Len(batch'.chunks) : batch'.chunks[k].id # Undefined})

\* C36: the worker path of generateBezierPaths splits N points for W
\* workers into at most W contiguous chunks of ceil(N/W) points (the last
\* possibly shorter) and submits one task per chunk.
C36_Chunking == []C36_Slices /\ [][C36_SubmitStep]_vars

\* two points were split into two chunks of one point for two workers
C36_Witness ==
    /\ batch.op = "bezier" /\ batch.path = "workers" /\ batch.n = 2
    /\ Len(workers) = 2 /\ Len(batch.chunks) = 2
    /\ batch.chunks[1].first = 1 /\ batch.chunks[1].last = 1
    /\ batch.chunks[2].first = 2 /\ batch.chunks[2].last = 2
    /\ batch.chunks[1].id = 0 /\ batch.chunks[2].id = 1

\* ================================================================ worker selection
\* the task ids accepted in a step: given an entry in the task queue
accepted == taskQueue' \ taskQueue

\* C37, first part: a task accepted under id t is posted to the worker at
\* index t mod W of the worker list of that moment.
C37_PostStep ==
    \A t \in accepted :
        /\ Len(workers) >= 1
        /\ posted[t] = NoWorker
        /\ posted'[t] = workers[(t % Len(workers)) + 1]

\* C37, second part: a task that was posted is never posted again, whatever
\* happens to its worker.
C37_PostedOnceStep ==
    \A t \in TaskIds : posted[t] # NoWorker => posted'[t] = posted[t]

\* C37: each accepted task is posted once, to worker t mod W.
C37_RoundRobin == [][C37_PostStep]_vars /\ [][C37_PostedOnceStep]_vars

\* tasks 0 and 1 went to the two workers in turn; the second worker then
\* crashed and task 1 is still recorded as posted to it only
C37_Witness ==
    /\ posted[0] # NoWorker /\ posted[1] # NoWorker /\ posted[0] # posted[1]
    /\ wstate[posted[1]] \in {"errored", "exited"}
    /\ 1 \in taskQueue

\* ================================================================ chunks and workers
\* the chunks of a batch call for which scheduleTask took a task id
submitted(cs) == {k \in 1 .. Len(cs) : cs[k].id # Undefined}

\* C39, as arithmetic: the chunks of N points for W workers, numbered from
\* any next task id s, fall on pairwise distinct indices of the worker list.
C39_DistinctIndices ==
    \A n \in 1 .. MaxChunked, w \in 1 .. MaxChunkWorkers, s \in 0 .. MaxChunked :
        \A k, l \in 1 .. Len(batchesFor(n, w)) :
            k # l => (s + k - 1) % w # (s + l - 1) % w

\* C39, in the pool: the chunks submitted by one generateBezierPaths call
\* take the ids nextTaskId, nextTaskId + 1, ... in chunk order, and their
\* workers are pairwise distinct.
C39_SubmitStep ==
    batch.state = "idle" /\ batch'.state = "pending" /\ batch'.path = "workers"
        /\ Len(workers) >= 1 =>
            /\ workers' = workers
            /\ \A k \in submitted(batch'.chunks) :
                  /\ batch'.chunks[k].id = nextTaskId + k - 1
                  /\ batch'.chunks[k].id \in taskQueue' =>
                        posted'[batch'.chunks[k].id] = selectWorker(batch'.chunks[k].id)
            /\ \A k, l \in submitted(batch'.chunks) :
                  k # l => selectWorker(batch'.chunks[k].id) # selectWorker(batch'.chunks[l].id)

\* C39: the chunk tasks of one generateBezierPaths call have consecutive
\* task ids and go to pairwise distinct workers.
C39_DistinctWorkers == []C39_DistinctIndices /\ [][C39_SubmitStep]_vars

\* a call with two points and two workers: chunk tasks 0 and 1, both still
\* pending, were posted to different workers
C39_Witness ==
    /\ batch.op = "bezier" /\ batch.path = "workers" /\ batch.state = "pending"
    /\ Len(batch.chunks) = 2
    /\ batch.chunks[1].id = 0 /\ batch.chunks[2].id = 1
    /\ taskQueue = {0, 1}
    /\ posted[0] # NoWorker /\ posted[1] # NoWorker /\ posted[0] # posted[1]

\* ================================================================ the active type
\* C38: once initialization has completed the active type is registered, so
\* the fallback of getModule() finds an instance.
C38_ActiveRegistered ==
    isInitialized => has(activeType) /\ getModule(PYTHON) # NoInstance

\* a refused setActiveType(PYTHON) and a benchmark that chose C++ left a
\* registered kind active
C38_Witness ==
    /\ isInitialized /\ activeType = CPP /\ has(CPP)
    /\ \E i, j \in 1 .. Len(calls) :
          /\ calls[i].op = "setActiveType" /\ calls[i].type = PYTHON
          /\ calls[i].state = "resolved"
          /\ calls[j].op = "benchmarkAndSelectBest" /\ calls[j].state = "resolved"
          /\ calls[j].value = CPP

\* ================================================================ the point pool
\* a PointPool and the callers that allocate from it and release to it
PointInit ==
    /\ InitPool(SoloBudget, MaxQueueSize, RequestedThreads)
    /\ cppModule = "absent"
    /\ CppIdle
    /\ \E initialSize \in InitialSizes, maxSizeOpt \in MaxSizeOptions,
          autoExpandOpt \in BOOLEAN :
          PointPool(initialSize, maxSizeOpt, autoExpandOpt)

PointSpec == PointInit /\ [][PointNext]_vars

\* C40: no Point object is held by two callers at once: allocate() never
\* returns an object that it returned before and that was not released
\* since.
C40_OneHolder == \A o \in Points : holders[o] <= 1

\* an exhausted pool handed out an object that is not pooled, which was
\* released, and allocate() was called again
C40_Witness ==
    /\ created > Len(pool)
    /\ releases >= 1
    /\ allocations >= Len(pool) + 2
    /\ point \in Points

====
